---- MODULE Spec2Model ----
(***************************************************************************)
(* ob_replay: replay and evaluation of an Oracle SQL workload on           *)
(* OceanBase.  The model follows src/main: the OceanBase client            *)
(* (oceanbase_client.py), the compatibility check (compatibility.py), the  *)
(* benchmark with its thread pool (benchmark.py) and the offline / online  *)
(* replay drivers (replay.py), entered as the command line does (cli.py).  *)
(*                                                                         *)
(* Python values: None is the string NoneVal (no modelled text equals it); *)
(* a float that is not a measured latency is a fraction [n, d]; measured   *)
(* latencies are whole milliseconds.                                       *)
(***************************************************************************)
EXTENDS Integers, Sequences, FiniteSets, TLC

VARIABLES
    entry,          \* which command entered the program (cli.py main / _run_replay)
    source,         \* what the replay's source holds, when fixed before the run
    mode,           \* replay mode: "compat" or "perf"
    iterations,     \* run_benchmark's iterations
    concurrency,    \* run_benchmark's concurrency
    pc,             \* position of the main thread
    sqls,           \* the statement list of run_offline / run_online
    baselines,      \* oracle baselines: statement text -> fraction
    idx,            \* replay loop: number of the statement being evaluated (0: none yet)
    compat_results, \* run_offline / run_online: compat_results
    bench_results,  \* run_offline / run_online: bench_results
    store_file,     \* run_online: the file at the path of store_file
    sql,            \* the sql argument of the current check_sql / run_benchmark call
    execute,        \* check_sql's execute argument
    oracle_baseline_ms, \* run_benchmark's oracle_baseline_ms argument
    explain_result, \* check_sql's explain_result
    exec_result,    \* check_sql's exec_result
    ret,            \* the value the last check_sql / run_benchmark call returned
    samples_ms,     \* run_benchmark's samples_ms
    errors,         \* run_benchmark's errors
    lock,           \* run_benchmark's lock: NoThread or the thread holding it
    submitted,      \* futures created by pool.submit so far
    taken,          \* work items the pool's workers have dequeued so far
    done,           \* tasks whose _run_once has returned
    wk,             \* per thread: its position inside _run_once and its locals
    inflight,       \* requests the target is executing now
    target_log,     \* every request the target has received, in order
    sample_task,    \* history: the task that appended each entry of samples_ms
    task_result,    \* history: the ExecutionResult each task got from the target
    ora_log,        \* every query the Oracle source has received, in order
    vsql,           \* the rows of the source's v$sql view, in heap order
    cap,            \* stream_sqls: its arguments
    clock,          \* time.time(), in poll intervals since the call
    last_time,      \* stream_sqls: last_time
    seen_keys,      \* stream_sqls: seen_keys
    count,          \* stream_sqls: count
    rows,           \* stream_sqls: rows, the batch of the current poll
    row_i,          \* stream_sqls: position of `for row in rows`
    out_file,       \* the lines of output_file on disk
    fp_buffer       \* lines written to fp and not yet flushed

cfgVars == <<entry, source, mode, iterations, concurrency>>
replayVars == <<sqls, baselines, idx, compat_results, bench_results, store_file>>
argVars == <<sql, execute, oracle_baseline_ms>>
checkVars == <<explain_result, exec_result>>
listVars == <<samples_ms, errors>>
poolVars == <<submitted, taken, done>>
targetVars == <<inflight, target_log>>
histVars == <<sample_task, task_result>>
capVars == <<vsql, cap, clock, last_time, seen_keys, count, rows, row_i,
             out_file, fp_buffer>>

vars == <<cfgVars, replayVars, argVars, checkVars, listVars, poolVars,
          targetVars, histVars, capVars, ora_log, pc, ret, lock, wk>>

(***************************************************************************)
(* Bounds of the model.                                                    *)
(***************************************************************************)
MaxIter == 3
MaxConc == 2
MaxElapsed == 1
MaxStmts == 2

NoneVal == "<None>"
NoThread == -1
MainThread == 0
NoFraction == [n |-> 0, d |-> 0]

Max(a, b) == IF a >= b THEN a ELSE b

\* Thread identifiers: the calling thread and the threads a pool can have.
Threads == 0..Max(MaxConc, MaxIter)

RECURSIVE SumSeq(_)
SumSeq(s) == IF s = <<>> THEN 0 ELSE Head(s) + SumSeq(Tail(s))


(***************************************************************************)
(* The target: what one run of the obclient subprocess can give back.      *)
(***************************************************************************)
MSG_MISSING == "ORA-00942: table or view does not exist"
MSG_MIXED == "Syntax Error: Feature NOT SUPPORTED"
MSG_SYNTAX == "ORA-00900: syntax error"
MSG_PRIV == "ORA-01031: insufficient privileges"
MSG_PERM_MISSING == "permission denied: table or view does not exist"
MSG_OTHER == "connection refused"
PLAN_TEXT == "TABLE FULL SCAN"

Proc(rc, out, err) == [returncode |-> rc, stdout |-> out, stderr |-> err]

\* A success, a failure with text on stderr, a failure that prints nothing.
SmallProcs ==
    { Proc(0, PLAN_TEXT, ""), Proc(1, "", MSG_MISSING), Proc(1, "", "") }

\* More: a success with a warning, a failure with text on stdout only,
\* failures whose text matches several hint rules or none.
AllProcs ==
    SmallProcs \cup
    { Proc(0, "", MSG_OTHER), Proc(1, MSG_SYNTAX, ""), Proc(1, PLAN_TEXT, MSG_MIXED),
      Proc(1, "", MSG_PRIV), Proc(1, "", MSG_PERM_MISSING), Proc(1, "", MSG_OTHER) }

\* The outcomes tried: all for a single compat check, fewer where calls
\* repeat (a benchmark), a success and a failure inside a replay.
ProcOutcomes ==
    CASE entry = "compat" -> AllProcs
      [] entry = "benchmark" -> SmallProcs
      [] OTHER -> { Proc(0, PLAN_TEXT, ""), Proc(1, "", MSG_MISSING) }

\* The latencies tried: one value inside a replay, where calls repeat most.
ElapsedVals ==
    IF entry \in {"run_offline", "run_online"} THEN {1} ELSE 1..MaxElapsed

SqlTexts == {"SELECT 1", "SELECT * FROM orders"}

\* Mutant: the error text is taken from stderr alone.
OceanBaseClient_execute_StderrOnly(text, proc, elapsed) ==
    LET success == proc.returncode = 0
        error_message ==
            IF success THEN NoneVal
            ELSE IF proc.stderr # "" THEN proc.stderr ELSE NoneVal
    IN [sql |-> text, success |-> success, elapsed_ms |-> elapsed,
        rows |-> NoneVal, error_message |-> error_message,
        plan |-> NoneVal, raw_output |-> proc.stdout]

OceanBaseClient_execute(text, proc, elapsed) ==
    LET success == proc.returncode = 0
        error_message ==
            IF success THEN NoneVal
            ELSE IF proc.stderr # "" THEN proc.stderr ELSE proc.stdout
    IN [sql |-> text, success |-> success, elapsed_ms |-> elapsed,
        rows |-> NoneVal, error_message |-> error_message,
        plan |-> NoneVal, raw_output |-> proc.stdout]

\* Mutant: the plan is not filled in from the output.
OceanBaseClient_explain_NoPlan(text, proc, elapsed) ==
    [OceanBaseClient_execute("EXPLAIN " \o text, proc, elapsed) EXCEPT !.sql = text]

OceanBaseClient_explain(text, proc, elapsed) ==
    LET result == OceanBaseClient_execute("EXPLAIN " \o text, proc, elapsed)
    IN [result EXCEPT !.plan = result.raw_output, !.sql = text]

NoResult ==
    [sql |-> NoneVal, success |-> FALSE, elapsed_ms |-> 0, rows |-> NoneVal,
     error_message |-> NoneVal, plan |-> NoneVal, raw_output |-> NoneVal]

\* A request as the target sees it: the client operation and the text piped
\* to obclient, with (history) the statement it is for and, while it runs,
\* the thread that waits for it.
Logged(op, text) == [op |-> op, input |-> text, stmt |-> idx]
Request(op, text, t) == [op |-> op, input |-> text, stmt |-> idx, thread |-> t]

(***************************************************************************)
(* benchmark.py: run_benchmark.                                            *)
(***************************************************************************)
IdleWorker == [pc |-> "idle", task |-> 0, result |-> NoResult, elapsed_ms |-> 0]

\* Mutant: the pool is not capped by concurrency, a thread per iteration.
Workers_Uncapped == 1..iterations

\* ThreadPoolExecutor(max_workers=concurrency): the pool's worker threads.
Workers == 1..concurrency

\* The thread that may start the next _run_once: the main thread in the
\* sequential loop, a free pool worker with a queued work item otherwise.
\* The pool's threads run the same loop and keep nothing between work items,
\* so the free worker of lowest number stands for whichever one dequeues.
CanStart(t) ==
    /\ wk[t].pc = "idle"
    /\ IF t = MainThread
       THEN pc = "rb_seq" /\ taken < iterations
       ELSE /\ pc \in {"rb_submit", "rb_wait"}
            /\ t \in Workers
            /\ taken < submitted
            /\ \A u \in Workers : u < t => wk[u].pc # "idle"

\* Lines 19-21 and the branch of line 34.
RunBenchmarkEnter ==
    /\ pc = "rb_enter"
    /\ samples_ms' = <<>>
    /\ errors' = <<>>
    /\ lock' = NoThread
    /\ submitted' = 0
    /\ taken' = 0
    /\ done' = {}
    /\ wk' = [t \in Threads |-> IdleWorker]
    /\ sample_task' = <<>>
    /\ task_result' = <<>>
    /\ pc' = IF concurrency <= 1 THEN "rb_seq" ELSE "rb_submit"
    /\ UNCHANGED <<capVars, ora_log, cfgVars, replayVars, argVars, checkVars, targetVars, ret>>

\* Line 39: one pool.submit(_run_once).
Submit ==
    /\ pc = "rb_submit"
    /\ submitted < iterations
    /\ submitted' = submitted + 1
    /\ UNCHANGED <<capVars, ora_log, cfgVars, replayVars, argVars, checkVars, listVars,
                   targetVars, histVars, pc, ret, lock, taken, done, wk>>

\* Line 39 done: the list of futures is complete.
SubmitEnd ==
    /\ pc = "rb_submit"
    /\ submitted >= iterations
    /\ pc' = "rb_wait"
    /\ UNCHANGED <<capVars, ora_log, cfgVars, replayVars, argVars, checkVars, listVars,
                   poolVars, targetVars, histVars, ret, lock, wk>>

\* Lines 24-25: thread t starts a _run_once and calls ob_client.execute(sql).
RunOnceCall(t) ==
    /\ CanStart(t)
    /\ taken' = taken + 1
    /\ wk' = [wk EXCEPT ![t] = [IdleWorker EXCEPT !.pc = "exec", !.task = taken + 1]]
    /\ inflight' = inflight \cup {Request("execute", sql, t)}
    /\ target_log' = Append(target_log, Logged("execute", sql))
    /\ UNCHANGED <<capVars, ora_log, cfgVars, replayVars, argVars, checkVars, listVars,
                   histVars, pc, ret, lock, submitted, done>>

\* Lines 25-26: the call returns; the elapsed time is taken.
RunOnceReturn(t) ==
    /\ wk[t].pc = "exec"
    /\ \E proc \in ProcOutcomes, elapsed \in ElapsedVals :
        LET result == OceanBaseClient_execute(sql, proc, elapsed)
        IN /\ wk' = [wk EXCEPT ![t].pc = "lock", ![t].result = result,
                               ![t].elapsed_ms = elapsed]
           /\ task_result' = task_result @@ (wk[t].task :> result)
    /\ inflight' = {r \in inflight : r.thread # t}
    /\ UNCHANGED <<capVars, ora_log, cfgVars, replayVars, argVars, checkVars, listVars,
                   poolVars, pc, ret, lock, target_log, sample_task>>

\* Mutant: the append section is entered without waiting for the lock.
LockFree_NoWait(t) == TRUE

\* Line 27: whether `with lock` lets thread t in.
LockFree(t) == lock = NoThread

LockAcquire(t) ==
    /\ wk[t].pc = "lock"
    /\ LockFree(t)
    /\ lock' = t
    /\ wk' = [wk EXCEPT ![t].pc = "append_sample"]
    /\ UNCHANGED <<capVars, ora_log, cfgVars, replayVars, argVars, checkVars, listVars,
                   poolVars, targetVars, histVars, pc, ret>>

\* Mutant: only a successful execution is sampled.
SamplesAfter_SuccessOnly(result, elapsed_ms) ==
    IF result.success THEN Append(samples_ms, elapsed_ms) ELSE samples_ms

\* Lines 28-31: samples_ms after the append of either branch.
SamplesAfter(result, elapsed_ms) ==
    IF result.success THEN Append(samples_ms, elapsed_ms)
    ELSE Append(samples_ms, elapsed_ms)

AppendSample(t) ==
    /\ wk[t].pc = "append_sample"
    /\ samples_ms' = SamplesAfter(wk[t].result, wk[t].elapsed_ms)
    /\ sample_task' =
          IF Len(samples_ms') > Len(samples_ms)
          THEN Append(sample_task, wk[t].task) ELSE sample_task
    /\ wk' = [wk EXCEPT ![t].pc =
                 IF wk[t].result.success THEN "unlock" ELSE "append_error"]
    /\ UNCHANGED <<capVars, ora_log, cfgVars, replayVars, argVars, checkVars, poolVars,
                   targetVars, pc, ret, errors, lock, task_result>>

\* Mutant: the error text is appended as it is.
ErrorText_Raw(result) == result.error_message

\* Line 32: result.error_message or "unknown error".
ErrorText(result) ==
    IF result.error_message = NoneVal \/ result.error_message = ""
    THEN "unknown error" ELSE result.error_message

AppendError(t) ==
    /\ wk[t].pc = "append_error"
    /\ errors' = Append(errors, ErrorText(wk[t].result))
    /\ wk' = [wk EXCEPT ![t].pc = "unlock"]
    /\ UNCHANGED <<capVars, ora_log, cfgVars, replayVars, argVars, checkVars, poolVars,
                   targetVars, histVars, pc, ret, samples_ms, lock>>

\* End of the with block and of _run_once: the lock is released, the call
\* returns (in the pool: its future completes and the worker is free again).
Unlock(t) ==
    /\ wk[t].pc = "unlock"
    /\ lock' = NoThread
    /\ done' = done \cup {wk[t].task}
    /\ wk' = [wk EXCEPT ![t] = IdleWorker]
    /\ UNCHANGED <<capVars, ora_log, cfgVars, replayVars, argVars, checkVars, listVars,
                   targetVars, histVars, pc, ret, submitted, taken>>

\* Mutant: the call goes on to the summary without waiting for its runs.
AllRunsReturned_NoWait == TRUE

\* Mutant: the wait has a timeout; the call goes on once every run has
\* started.
AllRunsReturned_Timeout == taken >= iterations

\* Lines 35-36 / 40-41 and the end of the with block of line 38: what the
\* main thread waits for before it goes on to line 43.  Sequential: range()
\* is exhausted and the last _run_once has returned.  Pool: as_completed has
\* yielded every future and shutdown(wait=True) has joined the workers.
AllRunsReturned ==
    IF pc = "rb_seq"
    THEN taken >= iterations /\ wk[MainThread].pc = "idle"
    ELSE /\ \A f \in 1..submitted : f \in done
         /\ \A t \in Workers : wk[t].pc = "idle"

\* Lines 62-73, in hundredths: _percentile(data, 95) * 100.
RECURSIVE Insert(_, _)
Insert(x, s) ==
    IF s = <<>> THEN <<x>>
    ELSE IF x <= Head(s) THEN <<x>> \o s ELSE <<Head(s)>> \o Insert(x, Tail(s))

\* Mutant: the samples are taken in the order they were appended.
sorted_Unsorted(s) == s

RECURSIVE sorted(_)
sorted(s) == IF s = <<>> THEN <<>> ELSE Insert(Head(s), sorted(Tail(s)))

_percentile(data, percentile) ==
    IF data = <<>> THEN 0
    ELSE LET ordered == sorted(data)
             k100 == (Len(ordered) - 1) * percentile
             f == k100 \div 100
             c == IF k100 % 100 = 0 THEN f ELSE f + 1
         IN IF f = c THEN ordered[f + 1] * 100
            ELSE ordered[f + 1] * (c * 100 - k100) + ordered[c + 1] * (k100 - f * 100)

\* Lines 43-59.  avg_ms is the fraction sum/len, p95_ms is in hundredths.
BenchmarkResult ==
    [sql |-> sql, iterations |-> iterations, concurrency |-> concurrency,
     avg_ms |-> IF samples_ms # <<>>
                THEN [n |-> SumSeq(samples_ms), d |-> Len(samples_ms)]
                ELSE [n |-> 0, d |-> 1],
     p95_ms |-> IF samples_ms # <<>> THEN _percentile(samples_ms, 95) ELSE 0,
     successes |-> iterations - Len(errors),
     failures |-> Len(errors),
     samples_ms |-> samples_ms,
     errors |-> errors,
     oracle_baseline_ms |-> oracle_baseline_ms]

RunBenchmarkReturn ==
    /\ pc \in {"rb_seq", "rb_wait"}
    /\ AllRunsReturned
    /\ ret' = BenchmarkResult
    /\ pc' = IF entry = "benchmark" THEN "cli_exit" ELSE "bench_returned"
    /\ UNCHANGED <<capVars, ora_log, cfgVars, replayVars, argVars, checkVars, listVars,
                   poolVars, targetVars, histVars, lock, wk>>

RunOnce(t) ==
    \/ RunOnceCall(t)
    \/ RunOnceReturn(t)
    \/ LockAcquire(t)
    \/ AppendSample(t)
    \/ AppendError(t)
    \/ Unlock(t)

NextBench ==
    \/ RunBenchmarkEnter
    \/ Submit
    \/ SubmitEnd
    \/ \E t \in Threads : RunOnce(t)
    \/ RunBenchmarkReturn

(***************************************************************************)
(* compatibility.py: _hint_from_error and check_sql.                       *)
(*                                                                         *)
(* Texts are TLA+ strings; Chars gives a text's characters, on which       *)
(* str.lower and the `in` substring test are computed.                     *)
(***************************************************************************)
CHARS_MISSING ==
    <<"O", "R", "A", "-", "0", "0", "9", "4", "2", ":", " ", "t", "a", "b",
      "l", "e", " ", "o", "r", " ", "v", "i", "e", "w", " ", "d", "o", "e",
      "s", " ", "n", "o", "t", " ", "e", "x", "i", "s", "t">>
CHARS_MIXED ==
    <<"S", "y", "n", "t", "a", "x", " ", "E", "r", "r", "o", "r", ":", " ",
      "F", "e", "a", "t", "u", "r", "e", " ", "N", "O", "T", " ", "S", "U",
      "P", "P", "O", "R", "T", "E", "D">>
CHARS_SYNTAX ==
    <<"O", "R", "A", "-", "0", "0", "9", "0", "0", ":", " ", "s", "y", "n",
      "t", "a", "x", " ", "e", "r", "r", "o", "r">>
CHARS_PRIV ==
    <<"O", "R", "A", "-", "0", "1", "0", "3", "1", ":", " ", "i", "n", "s",
      "u", "f", "f", "i", "c", "i", "e", "n", "t", " ", "p", "r", "i", "v",
      "i", "l", "e", "g", "e", "s">>
CHARS_PERM_MISSING ==
    <<"p", "e", "r", "m", "i", "s", "s", "i", "o", "n", " ", "d", "e", "n",
      "i", "e", "d", ":", " ", "t", "a", "b", "l", "e", " ", "o", "r", " ",
      "v", "i", "e", "w", " ", "d", "o", "e", "s", " ", "n", "o", "t", " ",
      "e", "x", "i", "s", "t">>
CHARS_OTHER ==
    <<"c", "o", "n", "n", "e", "c", "t", "i", "o", "n", " ", "r", "e", "f",
      "u", "s", "e", "d">>
CHARS_PLAN ==
    <<"T", "A", "B", "L", "E", " ", "F", "U", "L", "L", " ", "S", "C", "A",
      "N">>

Chars(text) ==
    CASE text = MSG_MISSING -> CHARS_MISSING
      [] text = MSG_MIXED -> CHARS_MIXED
      [] text = MSG_SYNTAX -> CHARS_SYNTAX
      [] text = MSG_PRIV -> CHARS_PRIV
      [] text = MSG_PERM_MISSING -> CHARS_PERM_MISSING
      [] text = MSG_OTHER -> CHARS_OTHER
      [] text = PLAN_TEXT -> CHARS_PLAN
      [] text = "" -> <<>>

UpperCase ==
    <<"A", "B", "C", "D", "E", "F", "G", "H", "I", "J", "K", "L", "M",
      "N", "O", "P", "Q", "R", "S", "T", "U", "V", "W", "X", "Y", "Z">>
LowerCase ==
    <<"a", "b", "c", "d", "e", "f", "g", "h", "i", "j", "k", "l", "m",
      "n", "o", "p", "q", "r", "s", "t", "u", "v", "w", "x", "y", "z">>

\* str.lower on one character, and on a text's characters.
LowerChar(c) ==
    IF \E i \in 1..26 : UpperCase[i] = c
    THEN LowerCase[CHOOSE i \in 1..26 : UpperCase[i] = c]
    ELSE c

lower(chars) == [i \in 1..Len(chars) |-> LowerChar(chars[i])]

\* needle in hay
In(needle, hay) ==
    \E i \in 0..(Len(hay) - Len(needle)) :
        SubSeq(hay, i + 1, i + Len(needle)) = needle

PAT_NOT_SUPPORTED ==
    <<"n", "o", "t", " ", "s", "u", "p", "p", "o", "r", "t", "e", "d">>
PAT_FEATURE_NOT_SUPPORTED ==
    <<"f", "e", "a", "t", "u", "r", "e", " ", "n", "o", "t", " ", "s", "u",
      "p", "p", "o", "r", "t", "e", "d">>
PAT_SYNTAX_ERROR ==
    <<"s", "y", "n", "t", "a", "x", " ", "e", "r", "r", "o", "r">>
PAT_PERMISSION ==
    <<"p", "e", "r", "m", "i", "s", "s", "i", "o", "n">>
PAT_PRIVILEGE ==
    <<"p", "r", "i", "v", "i", "l", "e", "g", "e">>
PAT_TABLE_OR_VIEW ==
    <<"t", "a", "b", "l", "e", " ", "o", "r", " ", "v", "i", "e", "w", " ",
      "d", "o", "e", "s", " ", "n", "o", "t", " ", "e", "x", "i", "s", "t">>

\* The four hint texts (Chinese in the source, given here by their meaning).
HINT_NOT_SUPPORTED == "hint: syntax not supported by OceanBase Oracle mode, rewrite or upgrade"
HINT_SYNTAX == "hint: check Oracle-only syntax or functions, use a compatible form"
HINT_PRIVILEGE == "hint: check the target user's privileges against the Oracle source"
HINT_MISSING_OBJECT == "hint: check that the migrated table/view exists, or add it"

\* Mutant: the syntax-error rule is tried before the not-supported rule.
_hint_from_error_SyntaxFirst(message) ==
    IF message = NoneVal \/ message = "" THEN NoneVal
    ELSE LET msg == lower(Chars(message))
         IN IF In(PAT_SYNTAX_ERROR, msg)
            THEN HINT_SYNTAX
            ELSE IF In(PAT_NOT_SUPPORTED, msg) \/ In(PAT_FEATURE_NOT_SUPPORTED, msg)
            THEN HINT_NOT_SUPPORTED
            ELSE IF In(PAT_PERMISSION, msg) \/ In(PAT_PRIVILEGE, msg)
            THEN HINT_PRIVILEGE
            ELSE IF In(PAT_TABLE_OR_VIEW, msg)
            THEN HINT_MISSING_OBJECT
            ELSE NoneVal

\* Lines 50-62.
_hint_from_error(message) ==
    IF message = NoneVal \/ message = "" THEN NoneVal
    ELSE LET msg == lower(Chars(message))
         IN IF In(PAT_NOT_SUPPORTED, msg) \/ In(PAT_FEATURE_NOT_SUPPORTED, msg)
            THEN HINT_NOT_SUPPORTED
            ELSE IF In(PAT_SYNTAX_ERROR, msg)
            THEN HINT_SYNTAX
            ELSE IF In(PAT_PERMISSION, msg) \/ In(PAT_PRIVILEGE, msg)
            THEN HINT_PRIVILEGE
            ELSE IF In(PAT_TABLE_OR_VIEW, msg)
            THEN HINT_MISSING_OBJECT
            ELSE NoneVal

CompatibilityIssue(s, supported, stage, error_message, hint, plan) ==
    [sql |-> s, is_supported |-> supported, stage |-> stage,
     error_message |-> error_message, hint |-> hint, plan |-> plan]

\* Where check_sql returns to: cli.py line 29, or the replay loop.
CheckSqlReturnPc == IF entry = "compat" THEN "cli_exit" ELSE "check_returned"

\* Line 14: ob_client.explain(sql) is called.
ExplainCall ==
    /\ pc = "cs_enter"
    /\ explain_result' = NoResult
    /\ exec_result' = NoResult
    /\ inflight' = inflight \cup {Request("explain", "EXPLAIN " \o sql, MainThread)}
    /\ target_log' = Append(target_log, Logged("explain", "EXPLAIN " \o sql))
    /\ pc' = "cs_explain"
    /\ UNCHANGED <<capVars, ora_log, cfgVars, replayVars, argVars, listVars, poolVars, histVars,
                   ret, lock, wk>>

\* Mutant: a failed EXPLAIN is tried again.
ExplainReturn_Retry ==
    /\ pc = "cs_explain"
    /\ \E proc \in ProcOutcomes, elapsed \in ElapsedVals :
           explain_result' = OceanBaseClient_explain(sql, proc, elapsed)
    /\ inflight' = {r \in inflight : r.thread # MainThread}
    /\ pc' = IF explain_result'.success THEN "cs_explained" ELSE "cs_enter"
    /\ UNCHANGED <<capVars, ora_log, cfgVars, replayVars, argVars, listVars, poolVars, histVars,
                   ret, lock, wk, exec_result, target_log>>

\* Line 14: it returns.
ExplainReturn ==
    /\ pc = "cs_explain"
    /\ \E proc \in ProcOutcomes, elapsed \in ElapsedVals :
           explain_result' = OceanBaseClient_explain(sql, proc, elapsed)
    /\ inflight' = {r \in inflight : r.thread # MainThread}
    /\ pc' = "cs_explained"
    /\ UNCHANGED <<capVars, ora_log, cfgVars, replayVars, argVars, listVars, poolVars, histVars,
                   ret, lock, wk, exec_result, target_log>>

\* Mutant: the test of line 15 is inverted.
ExplainFailed_Inverted == explain_result.success

\* Line 15: not explain_result.success
ExplainFailed == ~explain_result.success

\* Lines 15-22.
ReturnExplainFailed ==
    /\ pc = "cs_explained"
    /\ ExplainFailed
    /\ ret' = CompatibilityIssue(sql, FALSE, "explain",
                                 explain_result.error_message,
                                 _hint_from_error(explain_result.error_message),
                                 NoneVal)
    /\ pc' = CheckSqlReturnPc
    /\ UNCHANGED <<capVars, ora_log, cfgVars, replayVars, argVars, checkVars, listVars,
                   poolVars, targetVars, histVars, lock, wk>>

\* Lines 24-30.
ReturnExplainOnly ==
    /\ pc = "cs_explained"
    /\ ~ExplainFailed
    /\ ~execute
    /\ ret' = CompatibilityIssue(sql, TRUE, "explain", NoneVal, NoneVal,
                                 explain_result.plan)
    /\ pc' = CheckSqlReturnPc
    /\ UNCHANGED <<capVars, ora_log, cfgVars, replayVars, argVars, checkVars, listVars,
                   poolVars, targetVars, histVars, lock, wk>>

\* Line 32: ob_client.execute(sql) is called.
ExecuteCall ==
    /\ pc = "cs_explained"
    /\ ~ExplainFailed
    /\ execute
    /\ inflight' = inflight \cup {Request("execute", sql, MainThread)}
    /\ target_log' = Append(target_log, Logged("execute", sql))
    /\ pc' = "cs_execute"
    /\ UNCHANGED <<capVars, ora_log, cfgVars, replayVars, argVars, checkVars, listVars,
                   poolVars, histVars, ret, lock, wk>>

\* Lines 32-47: it returns, and check_sql with it.
ExecuteReturn ==
    /\ pc = "cs_execute"
    /\ \E proc \in ProcOutcomes, elapsed \in ElapsedVals :
           exec_result' = OceanBaseClient_execute(sql, proc, elapsed)
    /\ ret' = IF exec_result'.success
              THEN CompatibilityIssue(sql, TRUE, "execute", NoneVal, NoneVal,
                                      explain_result.plan)
              ELSE CompatibilityIssue(sql, FALSE, "execute",
                                      exec_result'.error_message,
                                      _hint_from_error(exec_result'.error_message),
                                      explain_result.plan)
    /\ inflight' = {r \in inflight : r.thread # MainThread}
    /\ pc' = CheckSqlReturnPc
    /\ UNCHANGED <<capVars, ora_log, cfgVars, replayVars, argVars, listVars, poolVars, histVars,
                   lock, wk, explain_result, target_log>>

NextCheck ==
    \/ ExplainCall
    \/ ExplainReturn
    \/ ReturnExplainFailed
    \/ ReturnExplainOnly
    \/ ExecuteCall
    \/ ExecuteReturn

(***************************************************************************)
(* cli.py main, command "benchmark": one run_benchmark call.               *)
(***************************************************************************)
NoVerdict ==
    [sql |-> NoneVal, is_supported |-> FALSE, stage |-> NoneVal,
     error_message |-> NoneVal, hint |-> NoneVal, plan |-> NoneVal]

\* --oracle-sql-id absent, or given (tried with the default arguments).
Baselines0 == {NoFraction, [n |-> 3, d |-> 2]}

\* The source is not fixed before the run: it is whatever is found.
AnySource == [kind |-> "any"]

\* stream_sqls is not running.
CaptureIdle ==
    /\ vsql = <<>>
    /\ cap = NoneVal
    /\ clock = 0
    /\ last_time = 0
    /\ seen_keys = {}
    /\ count = 0
    /\ rows = <<>>
    /\ row_i = 0
    /\ out_file = <<>>
    /\ fp_buffer = <<>>

\* No file at the path.
NoFile == [exists |-> FALSE, readable |-> FALSE, lines |-> <<>>]

InitShared ==
    /\ store_file = NoFile
    /\ sqls = <<>>
    /\ baselines = <<>>
    /\ idx = 0
    /\ compat_results = <<>>
    /\ bench_results = <<>>
    /\ explain_result = NoResult
    /\ exec_result = NoResult
    /\ samples_ms = <<>>
    /\ errors = <<>>
    /\ lock = NoThread
    /\ submitted = 0
    /\ taken = 0
    /\ done = {}
    /\ wk = [t \in Threads |-> IdleWorker]
    /\ inflight = {}
    /\ target_log = <<>>
    /\ sample_task = <<>>
    /\ task_result = <<>>
    /\ ora_log = <<>>

\* Nothing has been returned: no verdict, no summary.
InitCommon == ret = NoVerdict /\ InitShared

InitBench ==
    /\ entry = "benchmark"
    /\ mode = "perf"
    /\ iterations \in 0..MaxIter
    /\ concurrency \in 0..MaxConc
    /\ pc = "rb_enter"
    /\ sql = "SELECT 1"
    /\ execute = FALSE
    /\ oracle_baseline_ms \in Baselines0
    /\ oracle_baseline_ms # NoFraction => iterations = 3 /\ concurrency = 1
    /\ source = AnySource
    /\ InitCommon
    /\ CaptureIdle

SpecBench == InitBench /\ [][NextBench]_vars

\* The same with every thread scheduled again and again and every call of
\* ob_client.execute returning.
SpecBenchFair == SpecBench /\ WF_vars(NextBench)

(***************************************************************************)
(* cli.py main, command "compat": one check_sql call.                      *)
(***************************************************************************)
InitCompat ==
    /\ entry = "compat"
    /\ mode = "compat"
    /\ iterations = 0
    /\ concurrency = 1
    /\ pc = "cs_enter"
    /\ sql \in SqlTexts
    /\ execute \in BOOLEAN
    /\ oracle_baseline_ms = NoFraction
    /\ source = AnySource
    /\ InitCommon
    /\ CaptureIdle

SpecCompat == InitCompat /\ [][NextCheck]_vars


(***************************************************************************)
(* replay.py: run_offline and run_online (cli.py _run_replay).             *)
(***************************************************************************)
\* A NULL number of a v$sql row.
NullNum == -1

\* The lines of a flat file and the sql_text of v$sql rows, as read.
RawTexts == {"SELECT 1", "SELECT * FROM orders", "  SELECT 1  ", "   "}

\* A statement written on two lines, and the same inside a JSON string.
TEXT_TWO_LINES == "SELECT 1\nFROM dual"
TEXT_ESCAPED == "SELECT 1\\nFROM dual"

\* str.strip on the texts above.
strip(text) ==
    CASE text = "  SELECT 1  " -> "SELECT 1"
      [] text = "   " -> ""
      [] OTHER -> text

RECURSIVE SeqsUpTo(_, _)
SeqsUpTo(S, n) ==
    IF n = 0 THEN {<<>>}
    ELSE LET shorter == SeqsUpTo(S, n - 1)
         IN shorter \cup {Append(q, x) : q \in shorter, x \in S}

\* A file at the source path: absent, there but not readable, or its lines.
FilesOf(Lines) ==
    {[exists |-> FALSE, readable |-> FALSE, lines |-> <<>>],
     [exists |-> TRUE, readable |-> FALSE, lines |-> <<>>]} \cup
    {[exists |-> TRUE, readable |-> TRUE, lines |-> ls] :
        ls \in SeqsUpTo(Lines, MaxStmts)}

\* The flat file.
Files == FilesOf(RawTexts)

\* open(path, "r") raises: no such file, or no permission.
OpenRaises(file) == ~file.exists \/ ~file.readable

\* Lines 176-181.
RECURSIVE StripNonBlank(_)
StripNonBlank(lines) ==
    IF lines = <<>> THEN <<>>
    ELSE IF strip(Head(lines)) # ""
         THEN <<strip(Head(lines))>> \o StripNonBlank(Tail(lines))
         ELSE StripNonBlank(Tail(lines))

_read_sql_lines(file) ==
    IF ~file.exists THEN <<>> ELSE StripNonBlank(file.lines)

\* A line of a capture log: the dump of a dict, valid JSON that is no dict,
\* text that is no JSON at all (also when only blanks), or bytes that are
\* no UTF-8.
JsonDict(text) == [json |-> [sql_id |-> "a1", sql_text |-> text]]
JsonLines ==
    { JsonDict("SELECT 1"), JsonDict("  SELECT 1  "), JsonDict("   "),
      JsonDict(NoneVal), [json |-> [sql_id |-> "a1"]],
      [json_value |-> "[1, 2]"], [raw |-> "{\"sql_text\": \"SELEC"],
      [raw |-> "   "], [bytes |-> "ff fe"] }

\* The capture log.
JsonlFiles == FilesOf(JsonLines)

\* capture.py lines 190-192: the line is blank once stripped.
BlankLine(line) == "raw" \in DOMAIN line /\ strip(line.raw) = ""

\* capture.py line 194: json.loads raises JSONDecodeError.
JSONDecodeError(line) == "raw" \in DOMAIN line

\* capture.py line 195: obj.get raises AttributeError, obj being no dict.
AttributeError(line) == "json_value" \in DOMAIN line

\* capture.py lines 188-189: reading the line from a file opened with
\* encoding="utf-8" raises UnicodeDecodeError.
UnicodeDecodeError(line) == "bytes" \in DOMAIN line

\* capture.py line 194: json.loads turns the escapes of a string back into
\* the characters they stand for.
Unescaped(text) == IF text = TEXT_ESCAPED THEN TEXT_TWO_LINES ELSE text
json_loads(line) ==
    IF "sql_text" \in DOMAIN line.json
    THEN [line.json EXCEPT !.sql_text = Unescaped(@)]
    ELSE line.json

\* capture.py line 195: obj.get("sql_text").
GetSqlText(obj) == IF "sql_text" \in DOMAIN obj THEN obj.sql_text ELSE NoneVal

\* capture.py lines 189-199: the loop over the lines; an exception other
\* than JSONDecodeError leaves the loop and the function.
RECURSIVE LoadLoop(_, _)
LoadLoop(lines, acc) ==
    IF lines = <<>> THEN [raised |-> FALSE, sqls |-> acc]
    ELSE LET line == Head(lines)
         IN IF BlankLine(line) \/ JSONDecodeError(line)
            THEN LoadLoop(Tail(lines), acc)
            ELSE IF AttributeError(line) \/ UnicodeDecodeError(line)
            THEN [raised |-> TRUE, sqls |-> <<>>]
            ELSE LET sql_text == GetSqlText(json_loads(line))
                 IN IF sql_text \in {NoneVal, ""}
                    THEN LoadLoop(Tail(lines), acc)
                    ELSE LoadLoop(Tail(lines), Append(acc, strip(sql_text)))

\* capture.py lines 183-200.
load_sqls_from_jsonl(file) ==
    IF OpenRaises(file) THEN [raised |-> TRUE, sqls |-> <<>>]
    ELSE LoadLoop(file.lines, <<>>)

\* Lines 184-191 (capture.py imports, so line 190 is reached); the flat
\* reader tests os.path.exists and then opens the file.
_read_sqls(file, fmt) ==
    IF fmt = "jsonl" THEN load_sqls_from_jsonl(file)
    ELSE IF file.exists /\ ~file.readable THEN [raised |-> TRUE, sqls |-> <<>>]
    ELSE [raised |-> FALSE, sqls |-> _read_sql_lines(file)]

\* The source of an offline run: a file of one of the formats of
\* --source-type (lines and dbreplay both read a flat file).
Formats == {"lines", "jsonl"}
FileSource(fmt, file) == [kind |-> "file", fmt |-> fmt, file |-> file]

\* The files an offline run can find at its source path.
FilesFound(fmt) ==
    IF source.kind = "any" THEN IF fmt = "jsonl" THEN JsonlFiles ELSE Files
    ELSE IF source.kind = "file" /\ source.fmt = fmt THEN {source.file}
    ELSE {}

\* The rows of the query of fetch_recent_sqls: (sql_text, elapsed_time, executions).
RowStats == {<<3000, 2>>, <<4000, 1>>, <<0, 0>>, <<5000, NullNum>>}
Rows ==
    {<<t, st[1], st[2]>> : t \in RawTexts, st \in RowStats}
       \cup {<<TEXT_TWO_LINES, 3000, 2>>}

\* What ora_client.execute(stmt, fetch=True) gives back: the rows, or a
\* failure when the query raised (oracle_client.py lines 46-61).
OraResults ==
    {[success |-> FALSE, rows |-> <<>>]} \cup
    {[success |-> TRUE, rows |-> rs] : rs \in SeqsUpTo(Rows, MaxStmts)}

\* The source of an online run: no connection to be had, or the outcome
\* of the query.
OnlineSources ==
    {[kind |-> "unreachable"]} \cup
    {[kind |-> "oracle", result |-> r] : r \in OraResults}

\* The outcomes of the query an online run can meet.
ResultsFound ==
    IF source.kind = "any" THEN OraResults
    ELSE IF source.kind = "oracle" THEN {source.result}
    ELSE {}

Truthy(x) == x # NullNum /\ x # 0

\* elapsed_time_us / 1000.0 / executions, as a fraction.
BaselineMs(elapsed_time_us, executions) ==
    [n |-> elapsed_time_us, d |-> 1000 * executions]

\* Lines 153-164: the loop over the rows; acc = <<sqls, baselines>>.
RECURSIVE FetchLoop(_, _, _)
FetchLoop(todo, acc, return_baseline) ==
    IF todo = <<>> THEN acc
    ELSE LET row == Head(todo)
             sql_text == strip(row[1])
         IN IF row[1] \in {NoneVal, ""}
            THEN FetchLoop(Tail(todo), acc, return_baseline)
            ELSE FetchLoop(
                    Tail(todo),
                    << Append(acc[1], sql_text),
                       IF return_baseline /\ Truthy(row[3]) /\ Truthy(row[2])
                       THEN [t \in DOMAIN acc[2] \cup {sql_text} |->
                               IF t = sql_text THEN BaselineMs(row[2], row[3])
                               ELSE acc[2][t]]
                       ELSE acc[2] >>,
                    return_baseline)

fetch_recent_sqls(result, return_baseline) ==
    IF result.success /\ result.rows # <<>>
    THEN FetchLoop(result.rows, << <<>>, <<>> >>, return_baseline)
    ELSE << <<>>, <<>> >>

\* Mutant: the baseline of the query is never found.
Get_Absent(d, k) == NoFraction

\* dict.get
Get(d, k) == IF k \in DOMAIN d THEN d[k] ELSE NoFraction

\* run_offline lines 40-44; oracle_baselines is not passed by the command
\* line, so it is {}.  An exception of the reader leaves run_offline.
ReadSqls ==
    /\ pc = "ro_enter"
    /\ entry = "run_offline"
    /\ \E fmt \in Formats : \E file \in FilesFound(fmt) :
          LET read == _read_sqls(file, fmt)
          IN /\ sqls' = read.sqls
             /\ pc' = IF read.raised THEN "raised" ELSE "ro_loop"
    /\ baselines' = <<>>
    /\ compat_results' = <<>>
    /\ bench_results' = <<>>
    /\ UNCHANGED <<capVars, ora_log, cfgVars, argVars, checkVars, listVars, poolVars,
                   targetVars, histVars, ret, lock, wk, store_file, idx>>

\* The lines a text takes in a file.
TextLines(text) ==
    IF text = TEXT_TWO_LINES THEN <<"SELECT 1", "FROM dual">> ELSE <<text>>

\* Lines 89-92: open(store_file, "w") and fp.write(sql + "\n") for each
\* statement.
RECURSIVE WrittenLines(_)
WrittenLines(ss) ==
    IF ss = <<>> THEN <<>> ELSE TextLines(Head(ss)) \o WrittenLines(Tail(ss))
Stored(ss) == [exists |-> TRUE, readable |-> TRUE, lines |-> WrittenLines(ss)]

\* run_online lines 86-95; store_file is given or not.
FetchRecentSqls ==
    /\ pc = "ro_enter"
    /\ entry = "run_online"
    /\ \E result \in ResultsFound :
          LET got == fetch_recent_sqls(result, TRUE)
          IN sqls' = got[1] /\ baselines' = got[2]
    /\ \E given \in BOOLEAN :
          store_file' = IF given THEN Stored(sqls') ELSE store_file
    /\ ora_log' = Append(ora_log, [q |-> "recent"])
    /\ compat_results' = <<>>
    /\ bench_results' = <<>>
    /\ pc' = "ro_loop"
    /\ UNCHANGED <<capVars, cfgVars, argVars, checkVars, listVars, poolVars,
                   targetVars, histVars, ret, lock, wk, idx>>

\* oracle_client.py line 43: connect() raises, and run_online with it.
FetchRaises ==
    /\ pc = "ro_enter"
    /\ entry = "run_online"
    /\ source.kind \in {"any", "unreachable"}
    /\ pc' = "raised"
    /\ UNCHANGED <<capVars, ora_log, cfgVars, replayVars, argVars, checkVars, listVars,
                   poolVars, targetVars, histVars, ret, lock, wk>>

\* The statement the loop of lines 47 / 50 / 98 / 101 takes next.
NextStatement == idx + 1

\* Mutant: the loop asks check_sql to execute the statement as well.
LoopCheckSql_Execute ==
    /\ pc = "ro_loop"
    /\ mode = "compat"
    /\ idx < Len(sqls)
    /\ idx' = idx + 1
    /\ sql' = sqls[idx']
    /\ execute' = TRUE
    /\ pc' = "cs_enter"
    /\ UNCHANGED <<capVars, ora_log, cfgVars, checkVars, listVars, poolVars, targetVars,
                   histVars, ret, lock, wk, store_file, sqls, baselines, compat_results,
                   bench_results, oracle_baseline_ms>>

\* Lines 46-48 / 97-99: the next check_sql(ob_client, sql, execute=False).
LoopCheckSql ==
    /\ pc = "ro_loop"
    /\ mode = "compat"
    /\ idx < Len(sqls)
    /\ idx' = NextStatement
    /\ sql' = sqls[idx']
    /\ execute' = FALSE
    /\ pc' = "cs_enter"
    /\ UNCHANGED <<capVars, ora_log, cfgVars, checkVars, listVars, poolVars, targetVars,
                   histVars, ret, lock, wk, store_file, sqls, baselines, compat_results,
                   bench_results, oracle_baseline_ms>>

\* Mutant: an unsupported verdict aborts the loop.
AppendCompat_AbortOnFailure ==
    /\ pc = "check_returned"
    /\ compat_results' =
          IF ret.is_supported THEN Append(compat_results, ret) ELSE compat_results
    /\ pc' = IF ret.is_supported THEN "ro_loop" ELSE "raised"
    /\ UNCHANGED <<capVars, ora_log, cfgVars, argVars, checkVars, listVars, poolVars,
                   targetVars, histVars, ret, lock, wk, store_file, sqls, baselines, idx,
                   bench_results>>

\* Lines 48 / 99: compat_results.append(...)
AppendCompat ==
    /\ pc = "check_returned"
    /\ compat_results' = Append(compat_results, ret)
    /\ pc' = "ro_loop"
    /\ UNCHANGED <<capVars, ora_log, cfgVars, argVars, checkVars, listVars, poolVars,
                   targetVars, histVars, ret, lock, wk, store_file, sqls, baselines, idx,
                   bench_results>>

\* Lines 49-58 / 100-109: the next run_benchmark(...).
LoopRunBenchmark ==
    /\ pc = "ro_loop"
    /\ mode # "compat"
    /\ idx < Len(sqls)
    /\ idx' = NextStatement
    /\ sql' = sqls[idx']
    /\ oracle_baseline_ms' = Get(baselines, sql')
    /\ pc' = "rb_enter"
    /\ UNCHANGED <<capVars, ora_log, cfgVars, checkVars, listVars, poolVars, targetVars,
                   histVars, ret, lock, wk, store_file, sqls, baselines, compat_results,
                   bench_results, execute>>

\* Lines 51 / 102: bench_results.append(...)
AppendBench ==
    /\ pc = "bench_returned"
    /\ bench_results' = Append(bench_results, ret)
    /\ pc' = "ro_loop"
    /\ UNCHANGED <<capVars, ora_log, cfgVars, argVars, checkVars, listVars, poolVars,
                   targetVars, histVars, ret, lock, wk, store_file, sqls, baselines, idx,
                   compat_results>>

\* Lines 61-67 / 112-117: the report is returned.
ReturnReport ==
    /\ pc = "ro_loop"
    /\ idx >= Len(sqls)
    /\ pc' = "cli_exit"
    /\ UNCHANGED <<capVars, ora_log, cfgVars, replayVars, argVars, checkVars, listVars,
                   poolVars, targetVars, histVars, ret, lock, wk>>

NextReplay ==
    \/ ReadSqls
    \/ FetchRecentSqls
    \/ FetchRaises
    \/ LoopCheckSql
    \/ AppendCompat
    \/ LoopRunBenchmark
    \/ AppendBench
    \/ ReturnReport

Next == NextReplay \/ NextCheck \/ NextBench

\* --iterations and --concurrency of the replay command: the defaults, no
\* iteration at all, and two iterations in a pool of two.
ReplayArgs == {<<1, 1>>, <<0, 1>>, <<2, 2>>}

InitReplay ==
    /\ entry \in {"run_offline", "run_online"}
    /\ mode \in {"compat", "perf"}
    /\ \E a \in ReplayArgs : iterations = a[1] /\ concurrency = a[2]
    /\ mode = "compat" => iterations = 1 /\ concurrency = 1
    /\ pc = "ro_enter"
    /\ sql = NoneVal
    /\ execute = FALSE
    /\ oracle_baseline_ms = NoFraction
    /\ source = AnySource
    /\ InitCommon
    /\ CaptureIdle

\* The replay command, and the compat command beside it: every way the
\* program reaches check_sql.
Init == InitReplay \/ InitCompat

Spec == Init /\ [][Next]_vars

\* The source is a flat file of one statement.
OneStatement ==
    /\ source.kind = "file"
    /\ source.fmt = "lines"
    /\ source.file.readable
    /\ source.file.lines = <<"SELECT 1">>

\* The replay with its source fixed before the run starts: the file at the
\* source path of an offline run, the reachability of the Oracle source and
\* the outcome of its query for an online run.  The arguments are the
\* defaults; others are tried with a file of one statement.
InitSource ==
    /\ \/ /\ entry = "run_offline"
          /\ \/ \E f \in Files : source = FileSource("lines", f)
             \/ \E f \in JsonlFiles : source = FileSource("jsonl", f)
       \/ /\ entry = "run_online"
          /\ source \in OnlineSources
    /\ mode \in {"compat", "perf"}
    /\ \E a \in ReplayArgs : iterations = a[1] /\ concurrency = a[2]
    /\ mode = "compat" => iterations = 1 /\ concurrency = 1
    /\ <<iterations, concurrency>> # <<1, 1>> => OneStatement
    /\ pc = "ro_enter"
    /\ sql = NoneVal
    /\ execute = FALSE
    /\ oracle_baseline_ms = NoFraction
    /\ InitCommon
    /\ CaptureIdle

SpecSource == (InitSource \/ InitCompat) /\ [][Next]_vars

(***************************************************************************)
(* capture.py: stream_sqls (cli.py, command "capture").                    *)
(***************************************************************************)
MaxPolls == 2
MaxRows == 2

\* A row of v$sql as the query of _fetch_sqls_since selects it (the counters
\* cpu_time, buffer_gets, disk_reads, rows_processed, fetches are copied to
\* the record like elapsed_time and are left out).
VRow(id, sch, mod, t, text, us, ex) ==
    [sql_id |-> id, child |-> 0, schema |-> sch, module |-> mod,
     last_active |-> t, sql_text |-> text, elapsed_us |-> us,
     executions |-> ex]

\* The rows tried: statements active at the same second (one written on two
\* lines, one whose text is NULL), one of them active again a second later,
\* one with no schema and module.
CapRows ==
    { VRow("a1", "HR", "App", 1, "SELECT 1", 3000, 2),
      VRow("b2", "scott", NoneVal, 1, TEXT_TWO_LINES, 0, 0),
      VRow("e5", "HR", "App", 1, NoneVal, 0, 0),
      VRow("a1", "HR", "App", 2, "SELECT 1", 5000, 3),
      VRow("c3", NoneVal, "batch", 2, "  SELECT 1  ", 5000, NullNum) }

\* v$sql: any rows, in any heap order; the same (sql_id, child_number) can
\* be listed twice (an obsolete child cursor beside its replacement).
Tables == SeqsUpTo(CapRows, MaxRows)

\* str.lower on the schema and module names above.
LowerName(name) ==
    CASE name = "HR" -> "hr"
      [] name = "App" -> "app"
      [] name = "APP" -> "app"
      [] OTHER -> name

\* x or ""
OrEmpty(x) == IF x = NoneVal THEN "" ELSE x

RECURSIVE InsertByTime(_, _)
InsertByTime(row, s) ==
    IF s = <<>> THEN <<row>>
    ELSE IF row.last_active < Head(s).last_active THEN <<row>> \o s
         ELSE <<Head(s)>> \o InsertByTime(row, Tail(s))

\* ORDER BY last_active_time (rows of equal time keep their heap order).
RECURSIVE OrderByTime(_)
OrderByTime(s) ==
    IF s = <<>> THEN <<>>
    ELSE InsertByTime(s[Len(s)], OrderByTime(SubSeq(s, 1, Len(s) - 1)))

\* ROWNUM <= :limit
RowNumUpTo(s, limit) == SubSeq(s, 1, IF Len(s) < limit THEN Len(s) ELSE limit)

\* Mutant: the query has no WHERE clause.
QuerySince_NoWhere(table, since, limit) ==
    RowNumUpTo(OrderByTime(table), limit)

\* Lines 105-138: the rows the query gives for the view's content.
QuerySince(table, since, limit) ==
    RowNumUpTo(
        OrderByTime(SelectSeq(table, LAMBDA r : r.last_active > since)),
        limit)

\* Lines 139-142: result.rows or [], the query having succeeded or failed.
_fetch_sqls_since(ok, table, since, limit) ==
    IF ok THEN QuerySince(table, since, limit) ELSE <<>>

\* v$sql_bind_capture for _fetch_binds (lines 145-167): one captured bind
\* for the first statement, none for the others.
_fetch_binds(sql_id, child) ==
    IF sql_id = "a1"
    THEN << [position |-> 1, name |-> ":1", datatype |-> "NUMBER", value |-> "7"] >>
    ELSE <<>>

\* _fmt_time (lines 177-180): datetime.isoformat().
_fmt_time(t) == <<"isoformat", t>>

\* Lines 38-39: the lowered filter sets; None when the argument is empty.
include_schemas_set == {LowerName(x) : x \in cap.include_schemas}
include_modules_set == {LowerName(x) : x \in cap.include_modules}

\* Lines 62-66.
SchemaPasses(row) ==
    IF cap.include_schemas # {}
    THEN LowerName(OrEmpty(row.schema)) \in include_schemas_set
    ELSE cap.default_include_all

\* Line 67.
ModulePasses(row) ==
    ~(include_modules_set # {} /\ LowerName(OrEmpty(row.module)) \notin include_modules_set)

\* Line 69 (the key of a row; used only with dedup).
Key(row) == <<row.sql_id, row.child, row.last_active>>

\* Mutant: a row is never taken for seen.
DedupSkips_Never(row) == FALSE

\* Line 70.
DedupSkips(row) == cap.dedup /\ Key(row) \in seen_keys

\* Lines 73-75.
avg_elapsed_ms(row) ==
    IF Truthy(row.executions) /\ row.executions > 0 /\ row.elapsed_us # NullNum
    THEN BaselineMs(row.elapsed_us, row.executions) ELSE NoFraction

\* Lines 76-92: the record of a row.
Record(row, binds) ==
    [sql_id |-> row.sql_id, child_number |-> row.child, schema |-> row.schema,
     module |-> row.module, last_active_time |-> _fmt_time(row.last_active),
     sql_text |-> row.sql_text, binds |-> binds,
     executions |-> row.executions, avg_elapsed_ms |-> avg_elapsed_ms(row),
     elapsed_time_us |-> row.elapsed_us]

\* Mutant: the text is dumped as it is.
json_dumps_Raw(record) == record

\* Line 93: json.dumps(record, ensure_ascii=False) escapes the line breaks
\* of a string.
Escaped(text) == IF text = TEXT_TWO_LINES THEN TEXT_ESCAPED ELSE text
json_dumps(record) == [record EXCEPT !.sql_text = Escaped(@)]

\* Line 93: the lines fp.write(dump + "\n") adds to the file: one, unless
\* the dump has a line break in it, which cuts it in two pieces.
FileLines(dump) ==
    IF dump.sql_text = TEXT_TWO_LINES
    THEN << [raw |-> "{\"sql_id\": ..., \"sql_text\": \"SELECT 1"],
            [raw |-> "FROM dual\", ...}"] >>
    ELSE << [json |-> dump] >>

\* A line the file held before the run.
OldLine == [raw |-> "written by an earlier run"]

\* stream_sqls has not returned its count.
NoCount == -1

\* Everything stream_sqls leaves alone.
otherVars == <<cfgVars, replayVars, argVars, checkVars, listVars, poolVars,
               targetVars, histVars, lock, wk>>

\* The row `for row in rows` is at.
row == rows[row_i + 1]

\* Mutant: the file is opened with mode "w".
Opened_Truncated(disk) == <<>>

\* Line 41: the file on disk once open(output_file, "a") has returned.
Opened(disk) == disk

\* Lines 34-41: the SYSDATE query of _get_db_time (lines 170-174) gives
\* last_time its start; the output file is opened for appending.
\* interval_seconds is the unit of the clock.
StreamEnter ==
    /\ pc = "ss_enter"
    /\ \E db_time \in {1, 2} : last_time' = db_time - 1
    /\ ora_log' = Append(ora_log, [q |-> "sysdate"])
    /\ seen_keys' = {}
    /\ count' = 0
    /\ out_file' = Opened(out_file)
    /\ pc' = "ss_loop"
    /\ UNCHANGED <<otherVars, ret, vsql, cap, clock, rows, row_i, fp_buffer>>

\* oracle_client.py line 43: connect() raises in the first query, before the
\* file is opened.
StreamRaises ==
    /\ pc = "ss_enter"
    /\ pc' = "raised"
    /\ UNCHANGED <<otherVars, capVars, ora_log, ret>>

\* Mutant: the loop never looks at the clock.
DeadlineReached_Never == FALSE

\* Line 42: the deadline end_time = start + duration_seconds, the call
\* having started at clock 0.
DeadlineReached == ~(clock < cap.duration)

\* Lines 42-45: one poll.
Poll ==
    /\ pc = "ss_loop"
    /\ ~DeadlineReached
    /\ \E ok \in BOOLEAN :
          rows' = _fetch_sqls_since(ok, vsql, last_time, cap.limit)
    /\ last_time' = IF rows' # <<>> THEN rows'[Len(rows')].last_active ELSE last_time
    /\ ora_log' = Append(ora_log, [q |-> "since", last_time |-> last_time])
    /\ row_i' = 0
    /\ pc' = "ss_rows"
    /\ UNCHANGED <<otherVars, ret, vsql, cap, clock, seen_keys, count,
                   out_file, fp_buffer>>

\* Mutant: a row passes whatever the filters say.
Passes_All(r) == TRUE

\* Lines 62-68: both filters let the row through.
Passes(r) == SchemaPasses(r) /\ ModulePasses(r)

\* Mutant: the binds are fetched before the filters are applied.
SkipRow_BindsFirst ==
    /\ pc = "ss_rows"
    /\ row_i < Len(rows)
    /\ ~Passes(row) \/ DedupSkips(row)
    /\ row_i' = row_i + 1
    /\ ora_log' = IF cap.include_binds
                  THEN Append(ora_log, [q |-> "binds", sql_id |-> row.sql_id,
                                        child |-> row.child])
                  ELSE ora_log
    /\ UNCHANGED <<otherVars, pc, ret, vsql, cap, clock, last_time,
                   seen_keys, count, rows, out_file, fp_buffer>>

\* Lines 62-71: `continue`.
SkipRow ==
    /\ pc = "ss_rows"
    /\ row_i < Len(rows)
    /\ ~Passes(row) \/ DedupSkips(row)
    /\ row_i' = row_i + 1
    /\ UNCHANGED <<otherVars, ora_log, pc, ret, vsql, cap, clock, last_time,
                   seen_keys, count, rows, out_file, fp_buffer>>

\* Lines 72-93: the binds are fetched, the record is built and written.
WriteRecord ==
    /\ pc = "ss_rows"
    /\ row_i < Len(rows)
    /\ Passes(row) /\ ~DedupSkips(row)
    /\ LET binds == IF cap.include_binds
                    THEN _fetch_binds(row.sql_id, row.child) ELSE <<>>
       IN fp_buffer' = fp_buffer \o FileLines(json_dumps(Record(row, binds)))
    /\ ora_log' = IF cap.include_binds
                  THEN Append(ora_log, [q |-> "binds", sql_id |-> row.sql_id,
                                        child |-> row.child])
                  ELSE ora_log
    /\ pc' = "ss_flush"
    /\ UNCHANGED <<otherVars, ret, vsql, cap, clock, last_time, seen_keys,
                   count, rows, row_i, out_file>>

\* Mutant: flush() leaves the lines in the buffer.
Flushed_Nothing(disk, buffer) == disk

\* The file on disk after fp.flush().
Flushed(disk, buffer) == disk \o buffer

\* Line 94.
Flush ==
    /\ pc = "ss_flush"
    /\ out_file' = Flushed(out_file, fp_buffer)
    /\ fp_buffer' = IF out_file' = out_file THEN fp_buffer ELSE <<>>
    /\ pc' = "ss_count"
    /\ UNCHANGED <<otherVars, ora_log, ret, vsql, cap, clock, last_time,
                   seen_keys, count, rows, row_i>>

\* Lines 95-97, and on to the next row.
CountRecord ==
    /\ pc = "ss_count"
    /\ seen_keys' = IF cap.dedup THEN seen_keys \cup {Key(row)} ELSE seen_keys
    /\ count' = count + 1
    /\ row_i' = row_i + 1
    /\ pc' = "ss_rows"
    /\ UNCHANGED <<otherVars, ora_log, ret, vsql, cap, clock, last_time,
                   rows, out_file, fp_buffer>>

\* What the view can hold a poll interval later: the same rows, or one more.
Activity(table) ==
    {table} \cup
    {Append(table, r) : r \in IF Len(table) < MaxRows THEN CapRows ELSE {}}

\* Line 98: the batch is done; time.sleep(interval_seconds).
Sleep ==
    /\ pc = "ss_rows"
    /\ row_i >= Len(rows)
    /\ clock' = clock + 1
    /\ vsql' \in Activity(vsql)
    /\ pc' = "ss_loop"
    /\ UNCHANGED <<otherVars, ora_log, ret, cap, last_time, seen_keys, count,
                   rows, row_i, out_file, fp_buffer>>

\* The file on disk once the with block of line 41 has closed it.
Closed(disk, buffer) == disk \o buffer

\* Lines 42 and 99: the deadline is reached, the file is closed and the
\* count returned.
StreamReturn ==
    /\ pc = "ss_loop"
    /\ DeadlineReached
    /\ out_file' = Closed(out_file, fp_buffer)
    /\ fp_buffer' = <<>>
    /\ ret' = count
    /\ pc' = "cli_exit"
    /\ UNCHANGED <<otherVars, ora_log, vsql, cap, clock, last_time,
                   seen_keys, count, rows, row_i>>

NextCapture ==
    \/ StreamEnter
    \/ StreamRaises
    \/ Poll
    \/ SkipRow
    \/ WriteRecord
    \/ Flush
    \/ CountRecord
    \/ Sleep
    \/ StreamReturn

\* The arguments tried: no filter, each filter, each of them with and
\* without dedup; a batch limit of one row with the default filters.
CapArgs ==
    { [dedup |-> d, include_schemas |-> f[1], include_modules |-> f[2],
       default_include_all |-> f[3], include_binds |-> f[4], limit |-> l,
       duration |-> n] :
         d \in BOOLEAN,
         f \in { <<{}, {}, TRUE, TRUE>>, <<{"hr"}, {}, TRUE, FALSE>>,
                 <<{}, {}, FALSE, TRUE>>, <<{}, {"APP"}, TRUE, TRUE>> },
         l \in {1, MaxRows},
         n \in (-1)..MaxPolls }

InitCapture ==
    /\ entry = "capture"
    /\ mode = "compat"
    /\ iterations = 0
    /\ concurrency = 1
    /\ pc = "ss_enter"
    /\ sql = NoneVal
    /\ execute = FALSE
    /\ oracle_baseline_ms = NoFraction
    /\ source = AnySource
    /\ ret = NoCount
    /\ InitShared
    /\ vsql \in Tables
    /\ cap \in {a \in CapArgs : a.limit = MaxRows \/ a.include_schemas = {}}
    /\ clock = 0
    /\ last_time = 0
    /\ seen_keys = {}
    /\ count = 0
    /\ rows = <<>>
    /\ row_i = 0
    /\ out_file \in {<<>>, <<OldLine>>}
    /\ fp_buffer = <<>>

SpecCapture == InitCapture /\ [][NextCapture]_vars

\* Where stream_sqls is: every step of it moves one of these.
positionVars == <<pc, row_i, clock>>

\* The same with time advancing and every call of the source and of the
\* file returning.
SpecCaptureFair == SpecCapture /\ WF_positionVars(NextCapture)

\* The same program where every thread that can take a step eventually takes
\* one and every request sent to the target is answered.
SpecFair == Spec /\ WF_vars(Next)

(***************************************************************************)
(* Properties of run_benchmark (SpecBench).                                *)
(***************************************************************************)
Range(s) == {s[i] : i \in DOMAIN s}
Count(s, x) == Cardinality({i \in DOMAIN s : s[i] = x})

\* The entry of the error list a failed execution is to leave.
ExpectedErrorText(result) ==
    IF result.error_message \in {NoneVal, ""} THEN "unknown error"
    ELSE result.error_message

\* C1: the summary a run_benchmark call returns holds exactly `iterations`
\* latency samples, and successes + failures = iterations, whatever the
\* target returned and however the workers interleaved.
C1_SampleCount ==
    pc = "cli_exit" =>
        /\ Len(ret.samples_ms) = iterations
        /\ ret.successes + ret.failures = iterations

C1_Witness ==
    /\ pc = "cli_exit"
    /\ concurrency > 1
    /\ iterations >= 2
    /\ ret.successes >= 1
    /\ ret.failures >= 1

InAppend(t) == wk[t].pc \in {"append_sample", "append_error", "unlock"}

\* C2: every append to samples_ms and errors is made by the thread holding
\* the call's lock; no two threads are in the append section together; the
\* sample and the error of a failed execution go in with no other thread's
\* append between them (errors lists the failed executions in the order of
\* their samples, short by exactly the one whose error is being appended).
C2_AppendsUnderLock ==
    /\ \A t \in Threads : InAppend(t) => lock = t
    /\ \A t1, t2 \in Threads : InAppend(t1) /\ InAppend(t2) => t1 = t2
    /\ LET failed == SelectSeq(sample_task, LAMBDA k : ~task_result[k].success)
           pending == {t \in Threads : wk[t].pc = "append_error"}
       IN /\ Len(failed) = Len(errors) + Cardinality(pending)
          /\ \A i \in 1..Len(errors) :
                errors[i] = ExpectedErrorText(task_result[failed[i]])
          /\ \A t \in pending : sample_task[Len(sample_task)] = wk[t].task

C2_Witness ==
    \E t1, t2 \in Workers :
        /\ concurrency > 1
        /\ wk[t1].pc = "append_error"
        /\ wk[t2].pc = "lock"

\* C3: in the returned summary successes / failures count the executions the
\* target answered with success / failure, errors holds one entry per failed
\* execution (its text, or "unknown error" when it has none), every
\* execution, failed or not, has one sample; so the counts and the multiset
\* of error texts are fixed by the outcomes, not by the interleaving.
C3_CountsMatchOutcomes ==
    pc = "cli_exit" =>
        LET tasks == DOMAIN task_result
            ok == {k \in tasks : task_result[k].success}
            bad == tasks \ ok
            texts == {ExpectedErrorText(task_result[k]) : k \in bad}
        IN /\ tasks = 1..iterations
           /\ ret.successes = Cardinality(ok)
           /\ ret.failures = Cardinality(bad)
           /\ Len(ret.errors) = Cardinality(bad)
           /\ Range(ret.errors) = texts
           /\ \A x \in texts :
                 Count(ret.errors, x) =
                    Cardinality({k \in bad : ExpectedErrorText(task_result[k]) = x})
           /\ Len(ret.samples_ms) = Len(sample_task)
           /\ \A k \in tasks : Count(sample_task, k) = 1

C3_Witness ==
    /\ pc = "cli_exit"
    /\ concurrency > 1
    /\ ret.successes >= 1
    /\ "unknown error" \in Range(ret.errors)
    /\ MSG_MISSING \in Range(ret.errors)

\* C4: never more than max(1, concurrency) executions are in flight; with
\* concurrency <= 1 the executions run one after another, the i-th sample
\* being that of the i-th execution started.
C4_BoundedInFlight ==
    /\ Cardinality(inflight) <= Max(1, concurrency)
    /\ Cardinality({t \in Threads : wk[t].pc = "exec"}) <= Max(1, concurrency)
    /\ concurrency <= 1 =>
          /\ \A i \in DOMAIN sample_task : sample_task[i] = i
          /\ taken <= Len(samples_ms) + 1
          /\ \A r \in inflight : r.thread = MainThread

C4_Witness ==
    /\ concurrency = 2
    /\ Cardinality(inflight) = 2
    /\ taken < submitted

(***************************************************************************)
(* Properties of check_sql (SpecCompat).                                   *)
(***************************************************************************)
\* C5: after a failing EXPLAIN check_sql sends the target no real execution,
\* whatever `execute` is, and returns stage=explain, is_supported=false
\* straight away.
C5_NoExecuteAfterFailedExplain ==
    (explain_result # NoResult /\ ~explain_result.success) =>
        /\ \A i \in DOMAIN target_log :
              target_log[i].op # "execute" /\ target_log[i].input # sql
        /\ Len(target_log) = 1
        /\ pc \in {"cs_explained", "cli_exit"}
        /\ pc = "cli_exit" => ret.stage = "explain" /\ ~ret.is_supported

C5_Witness ==
    /\ pc = "cli_exit"
    /\ execute
    /\ explain_result # NoResult
    /\ ~explain_result.success

\* C6: a verdict with is_supported=false has its error text set, also when
\* the failing obclient run printed nothing.
C6_UnsupportedHasErrorText ==
    (pc = "cli_exit" /\ ~ret.is_supported) => ret.error_message # NoneVal

C6_Witness ==
    /\ pc = "cli_exit"
    /\ ~ret.is_supported
    /\ ret.error_message = ""

\* The rule table of the hint, in its order.
HintRules ==
    << [subs |-> {PAT_NOT_SUPPORTED, PAT_FEATURE_NOT_SUPPORTED},
        hint |-> HINT_NOT_SUPPORTED],
       [subs |-> {PAT_SYNTAX_ERROR}, hint |-> HINT_SYNTAX],
       [subs |-> {PAT_PERMISSION, PAT_PRIVILEGE}, hint |-> HINT_PRIVILEGE],
       [subs |-> {PAT_TABLE_OR_VIEW}, hint |-> HINT_MISSING_OBJECT] >>

OccursIgnoringCase(p, chars) ==
    \E i \in 0..(Len(chars) - Len(p)) :
        \A j \in 1..Len(p) : LowerChar(chars[i + j]) = LowerChar(p[j])

RuleMatches(r, text) == \E p \in HintRules[r].subs : OccursIgnoringCase(p, Chars(text))

ExpectedHint(text) ==
    IF text \in {NoneVal, ""} THEN NoneVal
    ELSE LET hits == {r \in DOMAIN HintRules : RuleMatches(r, text)}
         IN IF hits = {} THEN NoneVal
            ELSE HintRules[CHOOSE r \in hits : \A q \in hits : r <= q].hint

\* C7: the hint of a verdict is that of the first rule of the table whose
\* substring occurs, ignoring case, in the error text; none when no rule
\* matches or the text is empty; "ORA-00942: table or view does not exist"
\* gives the missing-object hint.
C7_HintFirstRule ==
    pc = "cli_exit" =>
        /\ ret.hint = ExpectedHint(ret.error_message)
        /\ ret.error_message = MSG_MISSING => ret.hint = HINT_MISSING_OBJECT
        /\ ret.error_message \in {"", MSG_OTHER, NoneVal} => ret.hint = NoneVal

C7_Witness ==
    /\ pc = "cli_exit"
    /\ ret.error_message = MSG_MIXED
    /\ ret.hint = HINT_NOT_SUPPORTED

\* C8: check_sql returns one of four verdicts, by the EXPLAIN outcome, the
\* execute flag and the execution outcome; a supported verdict has no error
\* text and no hint.
C8_FourVerdicts ==
    pc = "cli_exit" =>
        LET e == explain_result
            x == exec_result
        IN /\ ~e.success =>
                 /\ ~ret.is_supported /\ ret.stage = "explain"
                 /\ ret.plan = NoneVal /\ x = NoResult
           /\ (e.success /\ ~execute) =>
                 /\ ret.is_supported /\ ret.stage = "explain"
                 /\ ret.plan = e.raw_output /\ x = NoResult
           /\ (e.success /\ execute /\ x.success) =>
                 /\ ret.is_supported /\ ret.stage = "execute"
                 /\ ret.plan = e.raw_output
           /\ (e.success /\ execute /\ ~x.success) =>
                 /\ ~ret.is_supported /\ ret.stage = "execute"
                 /\ ret.error_message = x.error_message
                 /\ ret.hint = ExpectedHint(x.error_message)
                 /\ ret.plan = e.raw_output
           /\ ret.is_supported =>
                 ret.error_message = NoneVal /\ ret.hint = NoneVal
           /\ ret.sql = sql

C8_Witness ==
    /\ pc = "cli_exit"
    /\ execute
    /\ explain_result.success
    /\ exec_result # NoResult
    /\ ~exec_result.success
    /\ ret.plan = PLAN_TEXT
    /\ ret.hint = HINT_MISSING_OBJECT


(***************************************************************************)
(* Properties of run_offline / run_online (Spec).                          *)
(***************************************************************************)
InReplay == entry \in {"run_offline", "run_online"}

\* The verdict check_sql(sql, execute=False) owes for an EXPLAIN outcome.
ExplainVerdict(stmt, e) ==
    IF e.success
    THEN [sql |-> stmt, is_supported |-> TRUE, stage |-> "explain",
          error_message |-> NoneVal, hint |-> NoneVal]
    ELSE [sql |-> stmt, is_supported |-> FALSE, stage |-> "explain",
          error_message |-> e.error_message,
          hint |-> ExpectedHint(e.error_message)]

VerdictFields == {"sql", "is_supported", "stage", "error_message", "hint"}

\* C9: in compat mode the replay calls check_sql with execute=False once per
\* statement, one at a time and in source order: the target receives one
\* EXPLAIN per statement, in order, and never a real execution; the i-th
\* verdict is that of the i-th statement's EXPLAIN, and the report has one
\* verdict per statement (supported, then unsupported with the missing-object
\* hint, for "SELECT 1" and a "SELECT * FROM orders" whose table is missing).
C9_CompatInOrder ==
    (InReplay /\ mode = "compat") =>
        LET n == Len(compat_results)
        IN /\ n <= Len(sqls)
           /\ n \in {idx, idx - 1}
           /\ \A i \in 1..n :
                 /\ compat_results[i].sql = sqls[i]
                 /\ compat_results[i].stage = "explain"
                 /\ compat_results[i].error_message = MSG_MISSING =>
                       /\ ~compat_results[i].is_supported
                       /\ compat_results[i].hint = HINT_MISSING_OBJECT
           /\ Len(target_log) = (IF pc = "cs_enter" THEN idx - 1 ELSE idx)
           /\ \A i \in DOMAIN target_log :
                 target_log[i] = [op |-> "explain",
                                  input |-> "EXPLAIN " \o sqls[i], stmt |-> i]
           /\ Cardinality(inflight) <= 1
           /\ pc \in {"cs_enter", "cs_explain", "cs_explained"} => ~execute
           /\ (n >= 1 /\ n = idx) =>
                 [f \in VerdictFields |-> compat_results[n][f]]
                     = ExplainVerdict(sqls[n], explain_result)
           /\ pc = "cli_exit" => n = Len(sqls) /\ bench_results = <<>>

C9_Witness ==
    /\ InReplay
    /\ mode = "compat"
    /\ pc = "cli_exit"
    /\ sqls = <<"SELECT 1", "SELECT * FROM orders">>
    /\ Len(compat_results) = 2
    /\ compat_results[1].is_supported
    /\ ~compat_results[2].is_supported
    /\ compat_results[2].hint = HINT_MISSING_OBJECT

\* C10: in perf mode the statements are benchmarked one at a time in source
\* order: every execution in flight is of the statement being benchmarked,
\* the benchmark of a statement starts only when all iterations of the ones
\* before it have completed, and the i-th result is that of the i-th
\* statement.
C10_PerfOneStatementAtATime ==
    (InReplay /\ mode # "compat") =>
        LET n == Len(bench_results)
        IN /\ \A r \in inflight : r.stmt = idx
           /\ n <= Len(sqls)
           /\ n \in {idx, idx - 1}
           /\ \A i \in 1..n :
                 /\ bench_results[i].sql = sqls[i]
                 /\ Len(bench_results[i].samples_ms) = iterations
                 /\ Count([j \in DOMAIN target_log |-> target_log[j].stmt], i)
                       = iterations
           /\ \A i, j \in DOMAIN target_log :
                 i < j => target_log[i].stmt <= target_log[j].stmt
           /\ \A i \in DOMAIN target_log :
                 /\ target_log[i].op = "execute"
                 /\ target_log[i].input = sqls[target_log[i].stmt]
           /\ pc = "rb_enter" => inflight = {} /\ n = idx - 1
           /\ pc = "cli_exit" => n = Len(sqls) /\ compat_results = <<>>

C10_Witness ==
    /\ InReplay
    /\ mode = "perf"
    /\ concurrency = 2
    /\ idx = 2
    /\ Len(bench_results) = 1
    /\ Cardinality(inflight) = 2
    /\ bench_results[1].failures = 1


\* What C11 asks of every state of a replay: nothing raises once the
\* statements are read, the entry appended last records the outcome its own
\* statement got from the target, and the report has one entry per statement.
FailuresRecorded ==
    InReplay =>
        /\ pc = "raised" => idx = 0 /\ target_log = <<>>
        /\ (mode = "compat" /\ idx >= 1 /\ Len(compat_results) = idx) =>
              /\ compat_results[idx].sql = sqls[idx]
              /\ compat_results[idx].is_supported = explain_result.success
              /\ ~explain_result.success =>
                    compat_results[idx].error_message = explain_result.error_message
        /\ (mode # "compat" /\ idx >= 1 /\ Len(bench_results) = idx) =>
              LET bad == {k \in DOMAIN task_result : ~task_result[k].success}
              IN /\ bench_results[idx].sql = sqls[idx]
                 /\ DOMAIN task_result = 1..iterations
                 /\ bench_results[idx].failures = Cardinality(bad)
                 /\ bench_results[idx].successes = iterations - Cardinality(bad)
                 /\ Len(bench_results[idx].samples_ms) = iterations
        /\ pc = "cli_exit" =>
              /\ Len(compat_results) = (IF mode = "compat" THEN Len(sqls) ELSE 0)
              /\ Len(bench_results) = (IF mode = "compat" THEN 0 ELSE Len(sqls))

\* A step leaves the entries already in the report as they are.
EntriesKept ==
    InReplay =>
        /\ \A i \in DOMAIN compat_results :
              i \in DOMAIN compat_results' /\ compat_results'[i] = compat_results[i]
        /\ \A i \in DOMAIN bench_results :
              i \in DOMAIN bench_results' /\ bench_results'[i] = bench_results[i]

\* C11: a failing EXPLAIN or failing benchmark executions of one statement do
\* not abort the batch: once the statements are read the run reaches its
\* return, with one entry per statement; the failure is recorded in that
\* statement's own entry and no entry of another statement changes.
C11_FailureDoesNotAbort ==
    /\ [](FailuresRecorded)
    /\ [][EntriesKept]_vars
    /\ (InReplay /\ pc = "ro_loop") ~> (pc = "cli_exit")

\* Reports whose first statement failed and whose second did not.
C11_Witness ==
    /\ InReplay
    /\ pc = "cli_exit"
    /\ Len(sqls) = 2
    /\ \/ /\ mode = "compat"
          /\ ~compat_results[1].is_supported
          /\ compat_results[2].is_supported
       \/ /\ mode = "perf"
          /\ iterations = 2
          /\ bench_results[1].failures = 2
          /\ bench_results[2].failures = 0


(***************************************************************************)
(* Properties of stream_sqls (SpecCapture).                                *)
(***************************************************************************)
InCapture == entry = "capture"

\* The records of this run, in the order written: on disk or still in the
\* buffer of fp.
IsRecord(line) == "json" \in DOMAIN line
Written == SelectSeq(out_file \o fp_buffer, IsRecord)
RecordKey(line) ==
    <<line.json.sql_id, line.json.child_number, line.json.last_active_time>>
KeyOfRow(r) == <<r.sql_id, r.child, _fmt_time(r.last_active)>>

\* C12: with dedup=true no two records written by a stream_sqls run have the
\* same (sql_id, child_number, last_active_time); a row whose key is already
\* written is not written again, in the same poll or a later one.
C12_DedupWritesKeyOnce ==
    (InCapture /\ cap.dedup) =>
        /\ \A i, j \in DOMAIN Written :
              i # j => RecordKey(Written[i]) # RecordKey(Written[j])
        /\ pc \in {"ss_flush", "ss_count"} =>
              \A i \in 1..(Len(Written) - 1) :
                  RecordKey(Written[i]) # KeyOfRow(row)

\* The second row of a batch has the key of the first, which was written.
C12_Witness ==
    /\ InCapture
    /\ cap.dedup
    /\ pc = "ss_rows"
    /\ row_i = 2
    /\ Key(rows[1]) = Key(rows[2])
    /\ count = 1
    /\ Len(Written) = 1


\* What C13 asks of a step of a run past its start: only a poll moves the
\* cursor; a poll without rows leaves it, a poll with rows moves it forward,
\* to the timestamp of the last row of the batch.
CursorStep ==
    (InCapture /\ pc # "ss_enter") =>
        /\ last_time' >= last_time
        /\ IF pc = "ss_loop" /\ pc' = "ss_rows"
           THEN IF rows' = <<>>
                THEN last_time' = last_time
                ELSE /\ last_time' = rows'[Len(rows')].last_active
                     /\ \A i \in DOMAIN rows' : rows'[i].last_active <= last_time'
           ELSE last_time' = last_time

\* C13: across the polls of a stream_sqls run last_time never decreases; a
\* poll returning no row leaves it unchanged, a poll returning rows sets it
\* to the timestamp of the batch's last row.
C13_CursorNeverDecreases == [][CursorStep]_vars

\* The second poll found nothing and left the cursor where the first poll's
\* batch had put it.
C13_Witness ==
    /\ InCapture
    /\ pc = "ss_rows"
    /\ clock = 1
    /\ rows = <<>>
    /\ last_time = 2
    /\ count >= 1


(***************************************************************************)
(* Properties of the reading of the source (SpecSource).                   *)
(***************************************************************************)
\* C14: when the source file of an offline run is missing or unreadable, in
\* the lines format and in the jsonl format alike, the statement list is
\* empty and run_offline returns a report without results; it does not
\* abort.
C14_MissingFileGivesEmptyReport ==
    (entry = "run_offline" /\ source.kind = "file" /\ OpenRaises(source.file)) =>
        /\ pc # "raised"
        /\ pc \in {"ro_loop", "cli_exit"} =>
              sqls = <<>> /\ compat_results = <<>> /\ bench_results = <<>>

\* A jsonl source that is not there: run_offline has raised.
C14_Witness ==
    /\ entry = "run_offline"
    /\ source.kind = "file"
    /\ source.fmt = "jsonl"
    /\ ~source.file.exists
    /\ pc = "raised"


\* The statements a capture log holds: the trimmed sql_text of its records
\* that have one, in file order.
RECURSIVE TextsOfRecords(_)
TextsOfRecords(lines) ==
    IF lines = <<>> THEN <<>>
    ELSE LET line == Head(lines)
             has == /\ "json" \in DOMAIN line
                    /\ "sql_text" \in DOMAIN line.json
                    /\ line.json.sql_text \notin {NoneVal, ""}
         IN (IF has THEN <<strip(line.json.sql_text)>> ELSE <<>>)
               \o TextsOfRecords(Tail(lines))

\* C15: load_sqls_from_jsonl skips every line that is not a valid record,
\* without aborting, and returns the sql_text of the remaining records in
\* file order: no malformed line keeps the lines after it from being loaded.
C15_MalformedLinesSkipped ==
    (/\ entry = "run_offline"
     /\ source.kind = "file"
     /\ source.fmt = "jsonl"
     /\ ~OpenRaises(source.file)) =>
        /\ pc # "raised"
        /\ pc # "ro_enter" => sqls = TextsOfRecords(source.file.lines)

\* A line holding a JSON array, then a record: the load has raised.
C15_Witness ==
    /\ entry = "run_offline"
    /\ source.kind = "file"
    /\ source.fmt = "jsonl"
    /\ source.file.readable
    /\ Len(source.file.lines) = 2
    /\ "json_value" \in DOMAIN source.file.lines[1]
    /\ "json" \in DOMAIN source.file.lines[2]
    /\ pc = "raised"


\* The three conditions on a polled row, from the arguments of the call and
\* the records written so far.
SchemaWanted(r) ==
    IF cap.include_schemas # {}
    THEN \E x \in cap.include_schemas : LowerName(x) = LowerName(OrEmpty(r.schema))
    ELSE cap.default_include_all
ModuleWanted(r) ==
    \/ cap.include_modules = {}
    \/ \E x \in cap.include_modules : LowerName(x) = LowerName(OrEmpty(r.module))
NotYetWritten(r) ==
    \/ ~cap.dedup
    \/ \A i \in DOMAIN Written : RecordKey(Written[i]) # KeyOfRow(r)

\* One step of `for row in rows`: the row is written exactly when the three
\* conditions hold, and is otherwise passed over with the file, the buffer,
\* the count and the seen keys as they were.
RowStep ==
    (InCapture /\ pc = "ss_rows" /\ row_i < Len(rows)) =>
        IF SchemaWanted(row) /\ ModuleWanted(row) /\ NotYetWritten(row)
        THEN /\ pc' = "ss_flush"
             /\ out_file' \o fp_buffer' = Append(out_file \o fp_buffer,
                                                 (out_file' \o fp_buffer')[Len(out_file \o fp_buffer) + 1])
             /\ LET line == fp_buffer'[Len(fp_buffer')]
                IN /\ IsRecord(line)
                   /\ RecordKey(line) = KeyOfRow(row)
                   /\ json_loads(line).sql_text = row.sql_text
        ELSE /\ pc' = "ss_rows"
             /\ row_i' = row_i + 1
             /\ UNCHANGED <<out_file, fp_buffer, count, seen_keys>>

\* C16: stream_sqls writes a polled row if and only if its schema passes the
\* schema filter (or, with no schema filter, default_include_all is true),
\* its module passes the module filter (if one is given), and, with dedup,
\* its key has not been written before; any other row is neither written nor
\* counted.
C16_RowWrittenIffAllThree == [][RowStep]_vars

\* Rows were dropped by a filter and a row was written in the same run.
C16_Witness ==
    /\ InCapture
    /\ pc = "ss_rows"
    /\ row_i = 2
    /\ count = 1
    /\ Len(Written) = 1
    /\ ~(SchemaWanted(rows[1]) /\ ModuleWanted(rows[1]))
    /\ RecordKey(Written[1]) = KeyOfRow(rows[2])


\* The records of this run that have reached the disk.
OnDisk == SelectSeq(out_file, IsRecord)

InOnline == entry = "run_online" /\ source.kind = "oracle"
HasText(r) == r[1] \notin {NoneVal, ""}
KeptRows == SelectSeq(source.result.rows, HasText)
HasStats(r) == r[2] \notin {NullNum, 0} /\ r[3] \notin {NullNum, 0}
RowBaseline(r) ==
    IF HasStats(r) THEN [n |-> r[2], d |-> 1000 * r[3]] ELSE NoFraction

\* The baseline of a text: that of the last row with this text, trimmed,
\* that has both figures.
RECURSIVE LastBaseline(_, _)
LastBaseline(text, rs) ==
    IF rs = <<>> THEN NoFraction
    ELSE LET r == rs[Len(rs)]
         IN IF strip(r[1]) = text /\ HasStats(r) THEN RowBaseline(r)
            ELSE LastBaseline(text, SubSeq(rs, 1, Len(rs) - 1))

\* One query has been sent to Oracle, the one of fetch_recent_sqls.
OneQuery == pc \notin {"ro_enter", "raised"} => ora_log = <<[q |-> "recent"]>>

\* C18 as stated: run_online sends exactly one query to the source per run,
\* and the baseline attached to a statement's benchmark result is the one of
\* that statement's own row of the query: elapsed_time_us / 1000 /
\* executions, absent when either figure is zero or null.
C18_BaselineOfOwnRow ==
    InOnline =>
        /\ OneQuery
        /\ \A i \in DOMAIN bench_results :
              bench_results[i].oracle_baseline_ms = RowBaseline(KeptRows[i])

\* C18, amended: run_online sends exactly one query to the source per run,
\* and the baseline attached to a statement's benchmark result is the one of
\* the last row of that query that has the statement's text and both figures
\* nonzero and non-null: elapsed_time_us / 1000 / executions of that row,
\* absent when there is no such row.
C18_BaselineOfText ==
    InOnline =>
        /\ OneQuery
        /\ pc # "ro_enter" =>
              /\ Len(sqls) = Len(KeptRows)
              /\ \A i \in DOMAIN sqls : sqls[i] = strip(KeptRows[i][1])
        /\ \A i \in DOMAIN bench_results :
              /\ bench_results[i].sql = sqls[i]
              /\ bench_results[i].oracle_baseline_ms =
                    LastBaseline(sqls[i], source.result.rows)

\* Two rows of one text: the first has figures, the second none, and both
\* statements have been benchmarked.
C18_Witness ==
    /\ InOnline
    /\ mode = "perf"
    /\ pc = "cli_exit"
    /\ Len(source.result.rows) = 2
    /\ strip(source.result.rows[1][1]) = strip(source.result.rows[2][1])
    /\ HasStats(source.result.rows[1])
    /\ ~HasStats(source.result.rows[2])
    /\ Len(bench_results) = 2
    /\ bench_results[2].oracle_baseline_ms = RowBaseline(source.result.rows[1])


\* The statement list cannot be had from the source: no connection, or the
\* query of fetch_recent_sqls fails.
FetchFails ==
    \/ source.kind = "unreachable"
    \/ source.kind = "oracle" /\ ~source.result.success

\* C19: in an online run, a failure to obtain the statement list from the
\* source (the connection cannot be made, or the fetch query fails) is fatal:
\* run_online raises and returns no report with an empty statement list.
C19_FetchFailureIsFatal ==
    (entry = "run_online" /\ FetchFails) => pc \in {"ro_enter", "raised"}

\* The fetch query failed and run_online has returned its report, empty.
C19_Witness ==
    /\ entry = "run_online"
    /\ source.kind = "oracle"
    /\ ~source.result.success
    /\ pc = "cli_exit"
    /\ sqls = <<>>
    /\ compat_results = <<>>
    /\ bench_results = <<>>


IsPrefix(a, b) == Len(a) <= Len(b) /\ SubSeq(b, 1, Len(a)) = a

\* One step of a capture run keeps every line of the file, and every line
\* written to it, where it was.
AppendOnlyStep ==
    InCapture =>
        /\ IsPrefix(out_file, out_file')
        /\ IsPrefix(out_file \o fp_buffer, out_file' \o fp_buffer')

\* C20: stream_sqls only appends to its output file: what the file held
\* before the run and every record written earlier in the run is still
\* there, unchanged, at every later point.
C20_OutputAppendOnly == [][AppendOnlyStep]_vars

\* The run has returned: the line of an earlier run, then its two records.
C20_Witness ==
    /\ InCapture
    /\ pc = "cli_exit"
    /\ ret = 2
    /\ Len(out_file) = 3
    /\ out_file[1] = OldLine
    /\ IsRecord(out_file[2])
    /\ IsRecord(out_file[3])


(***************************************************************************)
(* benchmark.py: the statistics of run_benchmark (lines 43-59) over any    *)
(* list of samples.                                                        *)
(***************************************************************************)
MaxSamples == 5
SampleVals == {10, 20, 30, 40, 50}

\* Lines 43-46 and 48-59: every run has returned with success; the summary
\* is computed from the samples.
Statistics ==
    /\ pc = "st_enter"
    /\ ret' = BenchmarkResult
    /\ pc' = "st_done"
    /\ UNCHANGED <<capVars, ora_log, cfgVars, replayVars, argVars, checkVars,
                   listVars, poolVars, targetVars, histVars, lock, wk>>

\* run_benchmark at line 43, its `iterations` runs returned with the
\* latencies of samples_ms.
InitStatistics ==
    /\ entry = "benchmark"
    /\ mode = "perf"
    /\ samples_ms \in SeqsUpTo(SampleVals, MaxSamples)
    /\ iterations = Len(samples_ms)
    /\ concurrency = 1
    /\ taken = iterations
    /\ pc = "st_enter"
    /\ sql = "SELECT 1"
    /\ execute = FALSE
    /\ oracle_baseline_ms = NoFraction
    /\ source = AnySource
    /\ store_file = NoFile
    /\ sqls = <<>>
    /\ baselines = <<>>
    /\ idx = 0
    /\ compat_results = <<>>
    /\ bench_results = <<>>
    /\ explain_result = NoResult
    /\ exec_result = NoResult
    /\ ret = NoVerdict
    /\ errors = <<>>
    /\ lock = NoThread
    /\ submitted = 0
    /\ done = {}
    /\ wk = [t \in Threads |-> IdleWorker]
    /\ inflight = {}
    /\ target_log = <<>>
    /\ sample_task = <<>>
    /\ task_result = <<>>
    /\ ora_log = <<>>
    /\ CaptureIdle

SpecStatistics == InitStatistics /\ [][Statistics]_vars

\* The i-th smallest of the samples: the least value that at least i
\* samples do not exceed.
AtRank(data, i) ==
    LET reach(v) == Cardinality({j \in DOMAIN data : data[j] <= v}) >= i
    IN CHOOSE v \in SampleVals : reach(v) /\ \A w \in SampleVals : reach(w) => v <= w

\* The p95 of the claim, in hundredths: k = (n - 1) * 0.95 is k100 / 100.
P95Hundredths(data) ==
    LET k100 == (Len(data) - 1) * 95
        lo == k100 \div 100
        hi == IF lo * 100 = k100 THEN lo ELSE lo + 1
    IN IF lo = hi THEN 100 * AtRank(data, lo + 1)
       ELSE AtRank(data, lo + 1) * (hi * 100 - k100)
               + AtRank(data, hi + 1) * (k100 - lo * 100)

IsPermutationOfTenToFifty(data) ==
    Len(data) = 5 /\ {data[i] : i \in DOMAIN data} = SampleVals

\* C21: the p95 of a non-empty sample list is taken from the ascending sort
\* at rank k = (n-1)*0.95, the sample at k when k is whole, otherwise the
\* two neighbours weighted by the distance to k; 10..50 in any order gives
\* 48, one sample gives that sample, and with no samples p95 and average
\* are both 0.
C21_Percentile ==
    (entry = "benchmark" /\ pc = "st_done") =>
        /\ samples_ms # <<>> => ret.p95_ms = P95Hundredths(samples_ms)
        /\ IsPermutationOfTenToFifty(samples_ms) => ret.p95_ms = 4800
        /\ Len(samples_ms) = 1 => ret.p95_ms = 100 * samples_ms[1]
        /\ samples_ms = <<>> =>
              ret.p95_ms = 0 /\ ret.avg_ms.n = 0 /\ ret.avg_ms.d # 0

\* 10..50 out of order, and its p95 of 48.
C21_Witness ==
    /\ entry = "benchmark"
    /\ pc = "st_done"
    /\ samples_ms = <<50, 10, 40, 20, 30>>
    /\ ret.p95_ms = 4800


(***************************************************************************)
(* Further properties of check_sql (SpecCompat).                           *)
(***************************************************************************)
\* The requests of one kind the target has been sent.
Requests(op) == {i \in DOMAIN target_log : target_log[i].op = op}

\* C22: one check_sql call sends the target exactly one EXPLAIN and at most
\* one real execution, exactly one when execute is true and the EXPLAIN
\* succeeded and none otherwise; nothing is tried again, and the first
\* failure is the verdict.
C22_NoRetry ==
    entry = "compat" =>
        /\ Cardinality(Requests("explain")) = (IF pc = "cs_enter" THEN 0 ELSE 1)
        /\ Cardinality(Requests("execute")) =
              (IF \/ pc = "cs_execute"
                  \/ pc = "cli_exit" /\ execute /\ explain_result.success
               THEN 1 ELSE 0)
        /\ Len(target_log) <= 2
        /\ pc = "cli_exit" =>
              /\ ~explain_result.success =>
                    /\ ~ret.is_supported
                    /\ ret.stage = "explain"
                    /\ ret.error_message = explain_result.error_message
              /\ (exec_result # NoResult /\ ~exec_result.success) =>
                    /\ ~ret.is_supported
                    /\ ret.stage = "execute"
                    /\ ret.error_message = exec_result.error_message

\* The EXPLAIN succeeded, the execution failed: two requests, and the
\* verdict is the failure.
C22_Witness ==
    /\ entry = "compat"
    /\ pc = "cli_exit"
    /\ execute
    /\ Len(target_log) = 2
    /\ target_log[1].op = "explain"
    /\ target_log[2].op = "execute"
    /\ ~exec_result.success
    /\ ~ret.is_supported


(***************************************************************************)
(* Further properties of stream_sqls (SpecCapture).                        *)
(***************************************************************************)
\* The bind queries sent to Oracle, in order.
IsBindQuery(q) == q.q = "binds"
BindQueries == SelectSeq(ora_log, IsBindQuery)

\* C23: stream_sqls sends the bind query once for each row it writes, after
\* the filters and the dedup check let the row through, and only with
\* include_binds; a dropped row causes no bind query, and without
\* include_binds there is no bind query and every record has binds = [].
C23_BindQueryPerWrittenRow ==
    InCapture =>
        IF cap.include_binds
        THEN /\ Len(BindQueries) = Len(Written)
             /\ \A i \in DOMAIN Written :
                   /\ BindQueries[i].sql_id = Written[i].json.sql_id
                   /\ BindQueries[i].child = Written[i].json.child_number
        ELSE /\ BindQueries = <<>>
             /\ \A i \in DOMAIN Written : Written[i].json.binds = <<>>

\* With include_binds a row was dropped and a row was written: one bind
\* query.
C23_Witness ==
    /\ InCapture
    /\ cap.include_binds
    /\ pc = "ss_rows"
    /\ row_i = 2
    /\ Len(Written) = 1
    /\ Len(BindQueries) = 1
    /\ Written[1].json.binds # <<>>


(***************************************************************************)
(* Further properties of run_benchmark (SpecBenchFair).                    *)
(***************************************************************************)
\* An execute call of the benchmark has not returned.
Outstanding == inflight # {} \/ \E t \in Threads : wk[t].pc = "exec"

\* run_benchmark has returned.
Returned == entry = "benchmark" /\ pc = "cli_exit"

\* At the return every one of the `iterations` calls was made and has
\* returned.
ReturnedAfterAllRuns ==
    Returned =>
        /\ ~Outstanding
        /\ Len(target_log) = iterations
        /\ Cardinality(DOMAIN task_result) = iterations

\* C24: a run_benchmark call returns once each of its `iterations` execute
\* calls has returned, and never while one of them is outstanding: a call
\* that never returns keeps the benchmark from returning.
C24_ReturnsWhenAllRunsReturned ==
    /\ [](ReturnedAfterAllRuns)
    /\ [][Outstanding => ~Returned']_vars
    /\ (entry = "benchmark" /\ pc = "rb_enter") ~> Returned

\* Two calls are outstanding at once, and the benchmark has not returned.
C24_Witness ==
    /\ entry = "benchmark"
    /\ pc = "rb_wait"
    /\ Cardinality(inflight) = 2
    /\ iterations = 3
    /\ taken = 2


(***************************************************************************)
(* Termination of stream_sqls (SpecCaptureFair).                           *)
(***************************************************************************)
\* The polls of the source so far; the sleeps so far are the clock.
IsPoll(q) == q.q = "since"
Polls == Len(SelectSeq(ora_log, IsPoll))

\* Every poll but the one whose rows are being handled has been followed by
\* its sleep, and no more polls are made than intervals fit the duration.
OnePollOneSleep ==
    InCapture =>
        /\ Polls = clock + (IF pc \in {"ss_rows", "ss_flush", "ss_count"} THEN 1 ELSE 0)
        /\ Polls <= Max(cap.duration, 0)
        /\ cap.duration <= 0 => Polls = 0 /\ (pc = "cli_exit" => ret = 0)

\* A poll is started only before the deadline, and a sleep only after the
\* rows of a poll.
PollBeforeDeadline ==
    InCapture =>
        /\ Polls' > Polls => clock < cap.duration /\ Polls' = Polls + 1
        /\ clock' # clock => clock' = clock + 1 /\ Polls' = Polls /\ Polls = clock'

\* C25: stream_sqls terminates: each turn of its loop is one poll of the
\* source followed by one sleep of the poll interval, no poll is started
\* once the deadline (start + duration) is reached, and, time advancing and
\* the source calls returning, the call returns; with duration <= 0 it polls
\* nothing and returns 0.
C25_StreamTerminates ==
    /\ [](OnePollOneSleep)
    /\ [][PollBeforeDeadline]_vars
    /\ (InCapture /\ pc = "ss_loop") ~> (pc = "cli_exit")

\* The run has returned after as many polls and sleeps as its duration has
\* intervals.
C25_Witness ==
    /\ InCapture
    /\ pc = "cli_exit"
    /\ cap.duration = MaxPolls
    /\ Polls = MaxPolls
    /\ clock = MaxPolls


(***************************************************************************)
(* The cursor of stream_sqls and the rows of the view (SpecCapture).       *)
(***************************************************************************)
\* The rows of the view above the cursor that a poll has not returned.
LeftOut(batch, cursor) ==
    {i \in DOMAIN vsql :
        /\ vsql[i].last_active > cursor
        /\ \A j \in DOMAIN batch : batch[j] # vsql[i]}

\* One poll: a row above the old cursor that the batch leaves out is above
\* the new cursor as well, so that the next query selects it.
PollKeepsRowsAhead ==
    (InCapture /\ pc = "ss_loop" /\ pc' = "ss_rows") =>
        \A i \in LeftOut(rows', last_time) : vsql[i].last_active > last_time'

\* C26: the cursor advance of stream_sqls never skips a source row for good:
\* every row above the previous cursor that a batch capped by the limit
\* leaves out, rows with the timestamp of the batch's last row included, is
\* returned by a later poll.
C26_NoRowSkippedForGood == [][PollKeepsRowsAhead]_vars

\* Two statements of one timestamp, a limit of one row, no filter: the run
\* has polled twice and returned with the first of them only.
C26_Witness ==
    /\ InCapture
    /\ pc = "cli_exit"
    /\ cap.limit = 1
    /\ Polls = 2
    /\ Len(vsql) = 2
    /\ vsql[1].sql_id # vsql[2].sql_id
    /\ vsql[1].last_active = vsql[2].last_active
    /\ last_time = vsql[2].last_active
    /\ ret = 1
    /\ Len(Written) = 1
    /\ RecordKey(Written[1]) = KeyOfRow(vsql[1])


(***************************************************************************)
(* The file of store_file read back as a flat source (SpecSource).         *)
(***************************************************************************)
\* C27: the file run_online writes through store_file, read back with the
\* flat-file reader, gives the statements run_online fetched and evaluated,
\* the same ones in the same order, whatever the statement list, texts with
\* line breaks and texts empty after trimming included; the file is written
\* before any statement is evaluated on the target.
C27_StoreFileReadsBack ==
    (entry = "run_online" /\ store_file.exists) =>
        /\ _read_sqls(store_file, "lines") = [raised |-> FALSE, sqls |-> sqls]
        /\ Len(target_log) > 0 => pc # "ro_enter"

\* One statement of two lines was fetched, stored and evaluated; the file
\* reads back as two statements.
C27_Witness ==
    /\ entry = "run_online"
    /\ pc = "cli_exit"
    /\ store_file.exists
    /\ sqls = <<TEXT_TWO_LINES>>
    /\ Len(compat_results) = 1
    /\ _read_sql_lines(store_file) = <<"SELECT 1", "FROM dual">>


(***************************************************************************)
(* The capture log read back (SpecCapture).                                *)
(***************************************************************************)
\* The log as a reader finds it, were everything written flushed, and what
\* load_sqls_from_jsonl makes of it.
LogFile(lines) == [exists |-> TRUE, readable |-> TRUE, lines |-> lines]
Loaded == load_sqls_from_jsonl(LogFile(out_file \o fp_buffer))

\* The statement a row gives when its record is read back: its text,
\* trimmed; none when the text is null or empty.
StatementOf(r) ==
    IF r.sql_text \in {NoneVal, ""} THEN <<>> ELSE <<strip(r.sql_text)>>

\* The log always loads, to nothing of this run before the run; a record
\* written adds one line to the log and its row's statement to what is
\* loaded; a row passed over adds nothing.
RoundTripStep ==
    InCapture =>
        /\ pc = "ss_enter" => Loaded.sqls = <<>>
        /\ ~Loaded.raised
        /\ ~Loaded'.raised
        /\ IF pc = "ss_rows" /\ pc' = "ss_flush"
           THEN /\ Loaded'.sqls = Loaded.sqls \o StatementOf(row)
                /\ Len(fp_buffer') = Len(fp_buffer) + 1
           ELSE Loaded'.sqls = Loaded.sqls

\* C28: the capture log round-trips: load_sqls_from_jsonl on a file written
\* by stream_sqls gives one statement per record, in the order written, the
\* record's sql_text trimmed, leaving out the records whose sql_text is null
\* or empty; a text with line breaks still takes one line of the log.
C28_CaptureLogRoundTrip == [][RoundTripStep]_vars

\* Two records were written, one of a statement of two lines and one with
\* no text: the log has two lines more and loads as the one statement.
C28_Witness ==
    /\ InCapture
    /\ pc = "cli_exit"
    /\ ret = 2
    /\ \E i \in DOMAIN out_file :
          IsRecord(out_file[i]) /\ out_file[i].json.sql_text = TEXT_ESCAPED
    /\ \E i \in DOMAIN out_file :
          IsRecord(out_file[i]) /\ out_file[i].json.sql_text = NoneVal
    /\ Loaded.sqls = <<TEXT_TWO_LINES>>

====
